---- MODULE Spec2Model ----
(***************************************************************************)
(* A model of the HEFT scheduler of src/heft-workflows/heft_scheduler.py.  *)
(*                                                                         *)
(* Times and costs are Python floats in seconds.  The model keeps them as  *)
(* integers counted in ticks, TicksPerSecond ticks to the second, chosen   *)
(* so that every quotient the code forms (a cost divided by a capacity of  *)
(* 0.8, a sum divided by the nine nodes, a mean times 1.2) is a whole      *)
(* number of ticks for the inputs the model draws.                         *)
(*                                                                         *)
(* The program is single threaded: a call of run_heft runs to its end      *)
(* before any other call starts.  The model splits run_heft into its steps *)
(* (define_dag, the calls and returns of compute_upward_rank, the sort,    *)
(* one schedule_task per task, the return) and lets no other call start    *)
(* while an instance is inside run_heft.                                   *)
(***************************************************************************)
EXTENDS Integers, Sequences, FiniteSets, TLC

\* ------------------------------------------------------------------ bounds

\* Calls of run_heft in a behaviour, over all instances.
MaxRuns == 2
\* Calls of load_benchmark_data in a behaviour.
MaxLoads == 1
\* Depth of the call stack at which Python raises RecursionError
\* (sys.getrecursionlimit(), 1000 unless changed; kept small here).
RecursionLimit == 8
\* Calls of _normalize_task_type a caller makes in a behaviour.
MaxCalls == 2
\* Calls of simulate_node_failure and simulate_rack_failure in a behaviour.
MaxSimCalls == 2

\* ------------------------------------------------------------------ units

TicksPerSecond == 12 * 10

Sec(x) == x * TicksPerSecond
\* A float given in tenths of a second (0.1 is Tenths(1), 1.5 is Tenths(15)).
Tenths(x) == (x * TicksPerSecond) \div 10

Max2(a, b) == IF a >= b THEN a ELSE b

RECURSIVE SumSeq(_)
SumSeq(s) == IF s = <<>> THEN 0 ELSE Head(s) + SumSeq(Tail(s))

Range(s) == {s[k] : k \in 1..Len(s)}

\* ---------------------------------------------------- cluster configuration

\* The keys of NODES in insertion order (the order "for n in self.nodes" visits).
NodeOrder ==
  << "master-m001", "master-m002", "master-m003",
     "worker-w001", "worker-w002", "worker-w003",
     "worker-w004", "worker-w005", "worker-w006" >>

NodeIds == Range(NodeOrder)

\* capacity is kept in tenths: 0.8 is 8, 1.0 is 10.
NODES ==
  [n \in NodeIds |->
     CASE n = "master-m001" -> [zone |-> "R1", type |-> "master", capacity |-> 8]
       [] n = "master-m002" -> [zone |-> "R2", type |-> "master", capacity |-> 8]
       [] n = "master-m003" -> [zone |-> "R3", type |-> "master", capacity |-> 8]
       [] n = "worker-w001" -> [zone |-> "R1", type |-> "worker", capacity |-> 10]
       [] n = "worker-w002" -> [zone |-> "R1", type |-> "worker", capacity |-> 10]
       [] n = "worker-w003" -> [zone |-> "R2", type |-> "worker", capacity |-> 10]
       [] n = "worker-w004" -> [zone |-> "R2", type |-> "worker", capacity |-> 10]
       [] n = "worker-w005" -> [zone |-> "R3", type |-> "worker", capacity |-> 10]
       [] OTHER             -> [zone |-> "R3", type |-> "worker", capacity |-> 10]]

Zones == {NODES[n].zone : n \in NodeIds}

COMM_COSTS ==
  [p \in {<<"R1", "R1">>, <<"R2", "R2">>, <<"R3", "R3">>,
          <<"R1", "R2">>, <<"R2", "R1">>, <<"R1", "R3">>,
          <<"R3", "R1">>, <<"R2", "R3">>, <<"R3", "R2">>} |->
     CASE p = <<"R1", "R1">> -> Tenths(1)
       [] p = <<"R2", "R2">> -> Tenths(1)
       [] p = <<"R3", "R3">> -> Tenths(1)
       [] p = <<"R1", "R2">> -> Tenths(15)
       [] p = <<"R2", "R1">> -> Tenths(15)
       [] p = <<"R1", "R3">> -> Tenths(20)
       [] p = <<"R3", "R1">> -> Tenths(20)
       [] p = <<"R2", "R3">> -> Tenths(15)
       [] OTHER              -> Tenths(15)]

\* The value DEFAULT_EXEC_COSTS has when the module is imported.
InitialExecCosts ==
  [t \in {"HEALTH_CHECK", "NODE_SIMULATION", "RACK_SIMULATION",
          "INTERIM_HEALTH_CHECK", "FINAL_HEALTH_CHECK", "INITIALIZE"} |->
     CASE t = "HEALTH_CHECK"         -> [master |-> Sec(35),  worker |-> Sec(25)]
       [] t = "NODE_SIMULATION"      -> [master |-> Sec(180), worker |-> Sec(150)]
       [] t = "RACK_SIMULATION"      -> [master |-> Sec(380), worker |-> Sec(350)]
       [] t = "INTERIM_HEALTH_CHECK" -> [master |-> Sec(30),  worker |-> Sec(20)]
       [] t = "FINAL_HEALTH_CHECK"   -> [master |-> Sec(30),  worker |-> Sec(20)]
       [] OTHER                      -> [master |-> Sec(15),  worker |-> Sec(12)]]

\* The pair get_exec_cost uses for a task type the table does not hold.
FallbackExecCost == [master |-> Sec(100), worker |-> Sec(80)]

\* The cost get_comm_cost uses for a zone pair the table does not hold.
FallbackCommCost == Tenths(10)

\* ------------------------------------------------------- constructor inputs

\* A caller's exec_costs argument that holds only two of the task types.
CustomExecCosts ==
  [t \in {"HEALTH_CHECK", "NODE_SIMULATION"} |->
     IF t = "HEALTH_CHECK" THEN [master |-> Sec(35),  worker |-> Sec(25)]
                           ELSE [master |-> Sec(180), worker |-> Sec(150)]]

\* A caller's comm_costs argument that lacks the pairs of zone R1 and R3.
CustomCommCosts ==
  [p \in {<<"R2", "R2">>, <<"R3", "R3">>, <<"R1", "R2">>, <<"R2", "R1">>} |->
     CASE p = <<"R2", "R2">> -> Tenths(1)
       [] p = <<"R3", "R3">> -> Tenths(1)
       [] p = <<"R1", "R2">> -> Tenths(5)
       [] OTHER              -> Tenths(20)]

\* exec_costs argument of __init__: None, or a table.
ExecArgs == {"None", "custom"}
\* comm_costs argument of __init__: None, or a table.
CommArgs == {"None", "custom"}

\* ------------------------------------------------------------ task graphs

\* dag_def of define_dag is a literal, the resilience workflow.  The model
\* also lets define_dag hold a graph with a cycle (A -> B -> A, and A -> C),
\* a fork (root -> b, root -> a, declared in this order), and a graph whose
\* lists disagree (x names y as predecessor, y does not name x as successor).
Dags == {"resilience", "cyclic", "fork", "broken"}

DagOrder(g) ==
  CASE g = "resilience" ->
         << "initialize", "health-check-1", "health-check-2", "health-check-3",
            "node-simulation", "interim-health-check", "rack-simulation",
            "final-health-check" >>
    [] g = "cyclic" -> << "A", "B", "C" >>
    [] g = "fork"   -> << "root", "b", "a" >>
    [] OTHER        -> << "x", "y" >>

DagIds(g) == Range(DagOrder(g))

ResilienceDag ==
  [t \in DagIds("resilience") |->
     CASE t = "initialize" ->
            [type |-> "INITIALIZE", pred |-> <<>>,
             succ |-> <<"health-check-1", "health-check-2", "health-check-3">>]
       [] t = "health-check-1" ->
            [type |-> "HEALTH_CHECK", pred |-> <<"initialize">>,
             succ |-> <<"node-simulation">>]
       [] t = "health-check-2" ->
            [type |-> "HEALTH_CHECK", pred |-> <<"initialize">>,
             succ |-> <<"node-simulation">>]
       [] t = "health-check-3" ->
            [type |-> "HEALTH_CHECK", pred |-> <<"initialize">>,
             succ |-> <<"node-simulation">>]
       [] t = "node-simulation" ->
            [type |-> "NODE_SIMULATION",
             pred |-> <<"health-check-1", "health-check-2", "health-check-3">>,
             succ |-> <<"interim-health-check">>]
       [] t = "interim-health-check" ->
            [type |-> "INTERIM_HEALTH_CHECK", pred |-> <<"node-simulation">>,
             succ |-> <<"rack-simulation">>]
       [] t = "rack-simulation" ->
            [type |-> "RACK_SIMULATION", pred |-> <<"interim-health-check">>,
             succ |-> <<"final-health-check">>]
       [] OTHER ->
            [type |-> "FINAL_HEALTH_CHECK", pred |-> <<"rack-simulation">>,
             succ |-> <<>>]]

CyclicDag ==
  [t \in DagIds("cyclic") |->
     CASE t = "A" -> [type |-> "INITIALIZE", pred |-> <<"B">>, succ |-> <<"C", "B">>]
       [] t = "B" -> [type |-> "HEALTH_CHECK", pred |-> <<"A">>, succ |-> <<"A">>]
       [] OTHER   -> [type |-> "FINAL_HEALTH_CHECK", pred |-> <<"A">>, succ |-> <<>>]]

ForkDag ==
  [t \in DagIds("fork") |->
     IF t = "root"
       THEN [type |-> "INITIALIZE", pred |-> <<>>, succ |-> <<"b", "a">>]
       ELSE [type |-> "HEALTH_CHECK", pred |-> <<"root">>, succ |-> <<>>]]

BrokenDag ==
  [t \in DagIds("broken") |->
     IF t = "x"
       THEN [type |-> "HEALTH_CHECK", pred |-> <<"y">>, succ |-> <<>>]
       ELSE [type |-> "INITIALIZE", pred |-> <<>>, succ |-> <<>>]]

dag_def(g) ==
  CASE g = "resilience" -> ResilienceDag
    [] g = "cyclic"     -> CyclicDag
    [] g = "fork"       -> ForkDag
    [] OTHER            -> BrokenDag

\* Task(id, task_type, predecessors, successors): the other fields take the
\* dataclass defaults.  scheduled_node None is the string "None".
Task(id, info) ==
  [id |-> id, task_type |-> info.type,
   predecessors |-> info.pred, successors |-> info.succ,
   upward_rank |-> 0, scheduled_node |-> "None",
   start_time |-> 0, end_time |-> 0]

\* Whether the successor edges of graph g hold a cycle: some task reaches
\* itself in one or more steps.
RECURSIVE ReachFrom(_, _, _)
ReachFrom(g, frontier, seen) ==
  LET next == UNION {Range(dag_def(g)[t].succ) : t \in frontier}
  IN  IF next \subseteq seen THEN seen
      ELSE ReachFrom(g, next \ seen, seen \cup next)

HasCycle(g) == \E t \in DagIds(g) : t \in ReachFrom(g, {t}, {})

\* ------------------------------------------------------------- cost model

\* A get_exec_cost whose default pair has its two costs exchanged.
ExecCostSwappedDefault(costs, task_type, node) ==
  LET node_type == NODES[node].type
      base_cost == IF task_type \in DOMAIN costs
                     THEN costs[task_type]
                     ELSE [master |-> FallbackExecCost.worker,
                           worker |-> FallbackExecCost.master]
  IN  (base_cost[node_type] * 10) \div NODES[node].capacity

get_exec_cost(costs, task_type, node) ==
  LET node_type == NODES[node].type
      capacity  == NODES[node].capacity
      base_cost == IF task_type \in DOMAIN costs THEN costs[task_type]
                                                 ELSE FallbackExecCost
  IN  (base_cost[node_type] * 10) \div capacity

\* A get_comm_cost that looks the zone pair up the wrong way round.
CommCostReversedKey(costs, src_node, dst_node, data_size) ==
  LET key == << NODES[dst_node].zone, NODES[src_node].zone >>
  IN  (IF key \in DOMAIN costs THEN costs[key] ELSE FallbackCommCost) * data_size

get_comm_cost(costs, src_node, dst_node, data_size) ==
  LET src_zone == NODES[src_node].zone
      dst_zone == NODES[dst_node].zone
      unit     == IF <<src_zone, dst_zone>> \in DOMAIN costs
                    THEN costs[<<src_zone, dst_zone>>]
                    ELSE FallbackCommCost
  IN  unit * data_size

\* sum(self.get_exec_cost(task.task_type, n) for n in self.nodes) / len(self.nodes)
avg_exec(costs, task_type) ==
  SumSeq([k \in 1..Len(NodeOrder) |-> get_exec_cost(costs, task_type, NodeOrder[k])])
    \div Len(NodeOrder)

\* sum(self.get_comm_cost(n, n) for n in self.nodes) / len(self.nodes)
avg_comm(costs) ==
  SumSeq([k \in 1..Len(NodeOrder) |-> get_comm_cost(costs, NodeOrder[k], NodeOrder[k], 1)])
    \div Len(NodeOrder)

\* ------------------------------------------------------------------ state

\* The scheduler objects of a behaviour: instance 1, constructed with any of
\* the arguments, and instance 2, another scheduler constructed after it with
\* the defaults.
Inst == {1, 2}

VARIABLES
  DEFAULT_EXEC_COSTS, \* the module-level table, which load_benchmark_data may write
  loads,              \* calls of load_benchmark_data made so far
  pc,                 \* per instance: "none" (not constructed), "ready",
                      \*   "ranking", "schedule" (inside run_heft), "done", "failed"
  exec_costs,         \* self.exec_costs: [shared |-> TRUE] is the module-level
                      \*   table itself, [shared |-> FALSE, own |-> t] the caller's
  comm_costs,         \* self.comm_costs
  dag,                \* which dag_def the instance's define_dag holds
  tasks,              \* self.tasks: task id -> Task
  memo,               \* memo of compute_all_ranks: task id -> rank
  stack,              \* the frames of compute_upward_rank, innermost last
  idx,                \* position of the running for-loop of run_heft
  sorted_tasks,       \* sorted_tasks of run_heft (task ids)
  schedule,           \* self.schedule: task id -> <<node, start, end>>
  schedule_keys,      \* the keys of self.schedule in insertion order
  node_availability,  \* self.node_availability
  runs,               \* calls of run_heft made on the instance
  error,              \* the exception a call of run_heft ended with, or "None"
  run_inputs,         \* history: the cost tables in effect when the current
                      \*   (or last) run_heft started
  returned,           \* history: what each completed run_heft returned, with
                      \*   the inputs it ran on
  assigned_cost,      \* history: over every schedule_task the instance has made,
                      \*   the sum of the task's execution cost on the chosen
                      \*   node and the largest communication cost to that node
                      \*   from a predecessor's node
  last_load,          \* history: the last call of load_benchmark_data: the
                      \*   table it wrote to (0 for the module-level table, else
                      \*   the instance that owns it), that table before the
                      \*   call, the feed, and the message the call printed
  sim,                \* the HEFTResilienceSimulator process (heft_resilience_sim.py)
  normalize_calls     \* history: the calls of _normalize_task_type a caller made,
                      \*   each with what it returned

vars == << DEFAULT_EXEC_COSTS, loads, pc, exec_costs, comm_costs, dag, tasks,
           memo, stack, idx, sorted_tasks, schedule, schedule_keys,
           node_availability, runs, error, run_inputs, returned,
           assigned_cost, last_load, sim, normalize_calls >>

\* The function with no argument: an empty dict.
EmptyDict == [x \in {} |-> 0]

\* No file has been read.
NoFeed == [doc |-> "None", items |-> <<>>]

\* No HEFTResilienceSimulator has been constructed.
SimNone ==
  [state |-> "none", k8s |-> FALSE, exclude_nodes |-> {}, exclude_zones |-> {},
   target_node |-> "None", target_zone |-> "None", target_nodes |-> <<>>,
   pos |-> 0, unschedulable |-> {}, tainted |-> {}, calls |-> 0, results |-> <<>>]

\* The table self.exec_costs refers to.
ExecCosts(i) ==
  IF exec_costs[i].shared THEN DEFAULT_EXEC_COSTS ELSE exec_costs[i].own

Resting == {"none", "ready", "done", "failed"}

\* No instance is inside run_heft.
Idle == \A j \in Inst : pc[j] \in Resting

Init ==
  /\ DEFAULT_EXEC_COSTS = InitialExecCosts
  /\ loads = 0
  /\ pc = [i \in Inst |-> "none"]
  /\ exec_costs = [i \in Inst |-> [shared |-> TRUE, own |-> EmptyDict]]
  /\ comm_costs = [i \in Inst |-> COMM_COSTS]
  /\ dag = [i \in Inst |-> "resilience"]
  /\ tasks = [i \in Inst |-> EmptyDict]
  /\ memo = [i \in Inst |-> EmptyDict]
  /\ stack = [i \in Inst |-> <<>>]
  /\ idx = [i \in Inst |-> 0]
  /\ sorted_tasks = [i \in Inst |-> <<>>]
  /\ schedule = [i \in Inst |-> EmptyDict]
  /\ schedule_keys = [i \in Inst |-> <<>>]
  /\ node_availability = [i \in Inst |-> [n \in NodeIds |-> 0]]
  /\ runs = [i \in Inst |-> 0]
  /\ error = [i \in Inst |-> "None"]
  /\ run_inputs = [i \in Inst |-> [exec |-> EmptyDict, comm |-> EmptyDict]]
  /\ returned = [i \in Inst |-> <<>>]
  /\ assigned_cost = [i \in Inst |-> 0]
  /\ last_load = [table |-> 0, before |-> EmptyDict, feed |-> NoFeed, printed |-> "None"]
  /\ sim = SimNone
  /\ normalize_calls = <<>>

\* ------------------------------------------------------------- __init__

\* HEFTScheduler(exec_costs, comm_costs).  "exec_costs or DEFAULT_EXEC_COSTS"
\* binds the module-level table itself when the argument is None.  Instance 1
\* takes any of the arguments with the literal graph and the defaults with
\* the other graphs; the later instances are constructed with the defaults
\* and the literal graph.
Construct(i, ea, ca, g) ==
  /\ Idle
  /\ pc[i] = "none"
  /\ \A j \in Inst : j < i => pc[j] # "none"
  /\ i > 1 => (ea = "None" /\ ca = "None" /\ g = "resilience")
  /\ g # "resilience" => (ea = "None" /\ ca = "None")
  /\ pc' = [pc EXCEPT ![i] = "ready"]
  /\ exec_costs' = [exec_costs EXCEPT ![i] =
                      IF ea = "None" THEN [shared |-> TRUE, own |-> EmptyDict]
                                     ELSE [shared |-> FALSE, own |-> CustomExecCosts]]
  /\ comm_costs' = [comm_costs EXCEPT ![i] =
                      IF ca = "None" THEN COMM_COSTS ELSE CustomCommCosts]
  /\ dag' = [dag EXCEPT ![i] = g]
  /\ tasks' = [tasks EXCEPT ![i] = EmptyDict]
  /\ schedule' = [schedule EXCEPT ![i] = EmptyDict]
  /\ schedule_keys' = [schedule_keys EXCEPT ![i] = <<>>]
  /\ node_availability' = [node_availability EXCEPT ![i] = [n \in NodeIds |-> 0]]
  /\ UNCHANGED << DEFAULT_EXEC_COSTS, loads, memo, stack, idx, sorted_tasks,
                  runs, error, run_inputs, returned, assigned_cost,
                  last_load, sim, normalize_calls >>

\* ------------------------------------------------- strings as characters

\* TLA+ strings are atoms; str.upper() and the "in" tests of
\* _normalize_task_type work on the characters.  Spelled lists every string
\* the model handles: the step names a caller or a feed gives, the
\* upper-cased names that match none of the rules, the task types, and the
\* substrings _normalize_task_type looks for.
Spelled ==
  { "health_check_1", "node-simulation", "cleanup", "final",
    "rack_sim", "init", "interim", "node_health_check_2_sim",
    "rack_node_sim", "interim_rack_sim", "final_interim", "init_final",
    "Health_Check", "node", "health_check_3_final", "CLEANUP",
    "NODE", "HEALTH_CHECK", "NODE_SIMULATION", "RACK_SIMULATION",
    "INTERIM_HEALTH_CHECK", "FINAL_HEALTH_CHECK", "INITIALIZE", "HEALTH_CHECK_1",
    "HEALTH_CHECK_2", "HEALTH_CHECK_3", "SIM", "RACK",
    "INTERIM", "FINAL", "INIT" }

Spell ==
  [s \in Spelled |->
     CASE s = "health_check_1" -> << "h", "e", "a", "l", "t", "h", "_", "c", "h", "e", "c", "k", "_", "1" >>
       [] s = "node-simulation" -> << "n", "o", "d", "e", "-", "s", "i", "m", "u", "l", "a", "t", "i", "o", "n" >>
       [] s = "cleanup" -> << "c", "l", "e", "a", "n", "u", "p" >>
       [] s = "final" -> << "f", "i", "n", "a", "l" >>
       [] s = "rack_sim" -> << "r", "a", "c", "k", "_", "s", "i", "m" >>
       [] s = "init" -> << "i", "n", "i", "t" >>
       [] s = "interim" -> << "i", "n", "t", "e", "r", "i", "m" >>
       [] s = "node_health_check_2_sim" -> << "n", "o", "d", "e", "_", "h", "e", "a", "l", "t", "h", "_", "c", "h", "e", "c", "k", "_", "2", "_", "s", "i", "m" >>
       [] s = "rack_node_sim" -> << "r", "a", "c", "k", "_", "n", "o", "d", "e", "_", "s", "i", "m" >>
       [] s = "interim_rack_sim" -> << "i", "n", "t", "e", "r", "i", "m", "_", "r", "a", "c", "k", "_", "s", "i", "m" >>
       [] s = "final_interim" -> << "f", "i", "n", "a", "l", "_", "i", "n", "t", "e", "r", "i", "m" >>
       [] s = "init_final" -> << "i", "n", "i", "t", "_", "f", "i", "n", "a", "l" >>
       [] s = "Health_Check" -> << "H", "e", "a", "l", "t", "h", "_", "C", "h", "e", "c", "k" >>
       [] s = "node" -> << "n", "o", "d", "e" >>
       [] s = "health_check_3_final" -> << "h", "e", "a", "l", "t", "h", "_", "c", "h", "e", "c", "k", "_", "3", "_", "f", "i", "n", "a", "l" >>
       [] s = "CLEANUP" -> << "C", "L", "E", "A", "N", "U", "P" >>
       [] s = "NODE" -> << "N", "O", "D", "E" >>
       [] s = "HEALTH_CHECK" -> << "H", "E", "A", "L", "T", "H", "_", "C", "H", "E", "C", "K" >>
       [] s = "NODE_SIMULATION" -> << "N", "O", "D", "E", "_", "S", "I", "M", "U", "L", "A", "T", "I", "O", "N" >>
       [] s = "RACK_SIMULATION" -> << "R", "A", "C", "K", "_", "S", "I", "M", "U", "L", "A", "T", "I", "O", "N" >>
       [] s = "INTERIM_HEALTH_CHECK" -> << "I", "N", "T", "E", "R", "I", "M", "_", "H", "E", "A", "L", "T", "H", "_", "C", "H", "E", "C", "K" >>
       [] s = "FINAL_HEALTH_CHECK" -> << "F", "I", "N", "A", "L", "_", "H", "E", "A", "L", "T", "H", "_", "C", "H", "E", "C", "K" >>
       [] s = "INITIALIZE" -> << "I", "N", "I", "T", "I", "A", "L", "I", "Z", "E" >>
       [] s = "HEALTH_CHECK_1" -> << "H", "E", "A", "L", "T", "H", "_", "C", "H", "E", "C", "K", "_", "1" >>
       [] s = "HEALTH_CHECK_2" -> << "H", "E", "A", "L", "T", "H", "_", "C", "H", "E", "C", "K", "_", "2" >>
       [] s = "HEALTH_CHECK_3" -> << "H", "E", "A", "L", "T", "H", "_", "C", "H", "E", "C", "K", "_", "3" >>
       [] s = "SIM" -> << "S", "I", "M" >>
       [] s = "RACK" -> << "R", "A", "C", "K" >>
       [] s = "INTERIM" -> << "I", "N", "T", "E", "R", "I", "M" >>
       [] s = "FINAL" -> << "F", "I", "N", "A", "L" >>
       [] OTHER -> << "I", "N", "I", "T" >>]

\* The string whose characters are cs.
Unspell(cs) == CHOOSE s \in Spelled : Spell[s] = cs

LowerCase == << "a", "b", "c", "d", "e", "f", "g", "h", "i", "j", "k", "l", "m",
                "n", "o", "p", "q", "r", "s", "t", "u", "v", "w", "x", "y", "z" >>
UpperCase == << "A", "B", "C", "D", "E", "F", "G", "H", "I", "J", "K", "L", "M",
                "N", "O", "P", "Q", "R", "S", "T", "U", "V", "W", "X", "Y", "Z" >>

UpperChar(c) ==
  IF \E k \in 1..Len(LowerCase) : LowerCase[k] = c
    THEN UpperCase[CHOOSE k \in 1..Len(LowerCase) : LowerCase[k] = c]
    ELSE c

\* str.upper() on the characters.
Upper(cs) == [k \in 1..Len(cs) |-> UpperChar(cs[k])]

\* "sub in cs" for strings.
Contains(cs, sub) ==
  \E k \in 0..(Len(cs) - Len(sub)) : SubSeq(cs, k + 1, k + Len(sub)) = sub

\* ------------------------------------------------- _normalize_task_type

\* A _normalize_task_type that tests INIT before FINAL.
NormalizeInitBeforeFinal(step_name) ==
  LET step_upper == Upper(Spell[step_name])
      has(sub)   == Contains(step_upper, Spell[sub])
  IN  IF has("HEALTH_CHECK_1") \/ has("HEALTH_CHECK_2") \/ has("HEALTH_CHECK_3")
        THEN "HEALTH_CHECK"
      ELSE IF has("NODE") /\ has("SIM") THEN "NODE_SIMULATION"
      ELSE IF has("RACK") /\ has("SIM") THEN "RACK_SIMULATION"
      ELSE IF has("INTERIM") THEN "INTERIM_HEALTH_CHECK"
      ELSE IF has("INIT") THEN "INITIALIZE"
      ELSE IF has("FINAL") THEN "FINAL_HEALTH_CHECK"
      ELSE Unspell(step_upper)

_normalize_task_type(step_name) ==
  LET step_upper == Upper(Spell[step_name])
      has(sub)   == Contains(step_upper, Spell[sub])
  IN  IF has("HEALTH_CHECK_1") \/ has("HEALTH_CHECK_2") \/ has("HEALTH_CHECK_3")
        THEN "HEALTH_CHECK"
      ELSE IF has("NODE") /\ has("SIM") THEN "NODE_SIMULATION"
      ELSE IF has("RACK") /\ has("SIM") THEN "RACK_SIMULATION"
      ELSE IF has("INTERIM") THEN "INTERIM_HEALTH_CHECK"
      ELSE IF has("FINAL") THEN "FINAL_HEALTH_CHECK"
      ELSE IF has("INIT") THEN "INITIALIZE"
      ELSE Unspell(step_upper)

\* A caller's scheduler._normalize_task_type(step_name): the method reads and
\* writes no field.
NormalizeCall(step_name) ==
  /\ Len(normalize_calls) < MaxCalls
  /\ normalize_calls' = Append(normalize_calls,
                               [step |-> step_name,
                                result |-> _normalize_task_type(step_name)])
  /\ UNCHANGED << DEFAULT_EXEC_COSTS, loads, pc, exec_costs, comm_costs, dag,
                  tasks, memo, stack, idx, sorted_tasks, schedule, schedule_keys,
                  node_availability, runs, error, run_inputs, returned,
                  assigned_cost, last_load, sim >>

\* ------------------------------------------------- load_benchmark_data

\* A value of the table that is no number: the str a feed gave as a mean.
\* Every cost is positive, so a negative number is free to stand for it.
StrMean == 0 - TicksPerSecond

IsNumber(x) == x >= 0

\* stats['mean'] * 1.2
MasterFromMean(mean) == (mean * 12) \div 10

\* A loop body that derives the master cost only when the type has none.
ApplyStepKeepMaster(costs, item) ==
  IF item.stats # "dict" THEN [costs |-> costs, raised |-> TRUE]
  ELSE IF item.mean = 0 THEN [costs |-> costs, raised |-> FALSE]
  ELSE LET task_type == _normalize_task_type(item.step)
       IN  IF task_type \notin DOMAIN costs THEN [costs |-> costs, raised |-> FALSE]
           ELSE IF ~IsNumber(item.mean)
             THEN [costs |-> [costs EXCEPT ![task_type].worker = item.mean],
                   raised |-> TRUE]
           ELSE [costs |-> [costs EXCEPT ![task_type].worker = item.mean],
                 raised |-> FALSE]

\* The body of the innermost loop for one (step, stats) item: the table it
\* leaves and whether it raised.
\*   stats that is no dict: stats.get raises AttributeError;
\*   mean 0 (or absent, or null): "if stats.get('mean')" is false;
\*   mean a str: the worker cost is stored, then mean * 1.2 raises TypeError.
ApplyStep(costs, item) ==
  IF item.stats # "dict" THEN [costs |-> costs, raised |-> TRUE]
  ELSE IF item.mean = 0 THEN [costs |-> costs, raised |-> FALSE]
  ELSE LET task_type == _normalize_task_type(item.step)
       IN  IF task_type \notin DOMAIN costs THEN [costs |-> costs, raised |-> FALSE]
           ELSE IF ~IsNumber(item.mean)
             THEN [costs |-> [costs EXCEPT ![task_type].worker = item.mean],
                   raised |-> TRUE]
           ELSE [costs |-> [costs EXCEPT ![task_type] =
                              [worker |-> item.mean,
                               master |-> MasterFromMean(item.mean)]],
                 raised |-> FALSE]

\* The loops over the feed's items, in the document's order, up to the first
\* item that raises.
RECURSIVE ApplyFeed(_, _)
ApplyFeed(costs, items) ==
  IF items = <<>> THEN [costs |-> costs, raised |-> FALSE]
  ELSE LET r == ApplyStep(costs, Head(items))
       IN  IF r.raised THEN r ELSE ApplyFeed(r.costs, Tail(items))

\* The try block: for a file that cannot be read as a document of the
\* expected shape (doc "unreadable") open() raises when it is missing,
\* json.load() when it is unparsable, data.get('platforms', {}).items() or
\* platform_data.get when it has another shape.
LoadResult(costs, feed) ==
  IF feed.doc # "ok" THEN [costs |-> costs, raised |-> TRUE]
  ELSE ApplyFeed(costs, feed.items)

Item(step, mean) == [step |-> step, stats |-> "dict", mean |-> mean]

\* The files the model reads: for a document of the expected shape, its
\* (step, stats) items platform by platform and step by step.
Feeds ==
  { [doc |-> "ok",
     items |-> << Item("health_check_1", TicksPerSecond \div 4) >>],
    [doc |-> "ok",
     items |-> << Item("final", Sec(30)),
                  Item("rack_sim", StrMean),
                  Item("init", Sec(6)) >>],
    [doc |-> "ok",
     items |-> << Item("node-simulation", Sec(100)),
                  Item("cleanup", Sec(5)),
                  Item("HEALTH_CHECK", 0),
                  Item("interim", Sec(10)),
                  Item("final_interim", Sec(15)),
                  [step |-> "INITIALIZE", stats |-> "number", mean |-> 0],
                  Item("final", Sec(6)) >>],
    [doc |-> "unreadable", items |-> <<>>] }

load_benchmark_data(i, feed) ==
  /\ Idle
  /\ pc[i] # "none"
  /\ loads < MaxLoads
  /\ loads' = loads + 1
  /\ LET r == LoadResult(ExecCosts(i), feed)
     IN  /\ IF exec_costs[i].shared
               THEN /\ DEFAULT_EXEC_COSTS' = r.costs
                    /\ UNCHANGED exec_costs
               ELSE /\ exec_costs' = [exec_costs EXCEPT ![i].own = r.costs]
                    /\ UNCHANGED DEFAULT_EXEC_COSTS
         /\ last_load' = [table |-> IF exec_costs[i].shared THEN 0 ELSE i,
                          before |-> ExecCosts(i), feed |-> feed,
                          printed |-> IF r.raised THEN "Warning" ELSE "Loaded"]
  /\ UNCHANGED << pc, comm_costs, dag, tasks, memo, stack, idx, sorted_tasks,
                  schedule, schedule_keys, node_availability, runs, error,
                  run_inputs, returned, assigned_cost, sim, normalize_calls >>

\* ------------------------------------------------------------ run_heft

\* The start of run_heft and its step 1, define_dag: every task of dag_def is
\* stored as a fresh Task.  self.schedule and self.node_availability are set
\* in __init__ only and are left as they are.  Instance 1 is the one that
\* calls run_heft repeatedly; a later instance calls it once.
define_dag(i) ==
  /\ Idle
  /\ pc[i] \in {"ready", "done", "failed"}
  /\ SumSeq(runs) < MaxRuns
  /\ i > 1 => runs[i] = 0
  /\ runs' = [runs EXCEPT ![i] = @ + 1]
  /\ tasks' = [tasks EXCEPT ![i] =
                 [t \in DagIds(dag[i]) |-> Task(t, dag_def(dag[i])[t])]]
  /\ memo' = [memo EXCEPT ![i] = EmptyDict]
  /\ stack' = [stack EXCEPT ![i] = <<>>]
  /\ idx' = [idx EXCEPT ![i] = 1]
  /\ sorted_tasks' = [sorted_tasks EXCEPT ![i] = <<>>]
  /\ error' = [error EXCEPT ![i] = "None"]
  /\ run_inputs' = [run_inputs EXCEPT ![i] =
                      [exec |-> ExecCosts(i), comm |-> comm_costs[i]]]
  /\ pc' = [pc EXCEPT ![i] = "ranking"]
  /\ UNCHANGED << DEFAULT_EXEC_COSTS, loads, exec_costs, comm_costs, dag,
                  schedule, schedule_keys, node_availability, returned,
                  assigned_cost, last_load, sim, normalize_calls >>

\* ---- step 2, compute_all_ranks and compute_upward_rank

\* A frame of compute_upward_rank: its task, the position of its loop over
\* task.successors, and max_successor_rank.
Frame(task_id) == [task |-> task_id, k |-> 1, max_successor_rank |-> 0]

TopFrame(i) == stack[i][Len(stack[i])]

\* A rank that leaves the task's own average execution cost out when the
\* task has successors.
RankOfWithoutOwnCost(i, frame) ==
  LET task == tasks[i][frame.task]
  IN  IF task.successors = <<>>
        THEN avg_exec(ExecCosts(i), task.task_type)
        ELSE frame.max_successor_rank

\* A rank that adds the average communication cost for every task, the
\* tasks without successors too.
RankOfAlwaysWithComm(i, frame) ==
  avg_exec(ExecCosts(i), tasks[i][frame.task].task_type)
    + avg_comm(comm_costs[i]) + frame.max_successor_rank

\* The rank a frame stores when its loop is over.
RankOf(i, frame) ==
  LET task == tasks[i][frame.task]
  IN  IF task.successors = <<>>
        THEN avg_exec(ExecCosts(i), task.task_type)
        ELSE avg_exec(ExecCosts(i), task.task_type) + frame.max_successor_rank

\* max(max_successor_rank, avg_comm + succ_rank)
FoldSuccessor(i, frame, succ_rank) ==
  Max2(frame.max_successor_rank, avg_comm(comm_costs[i]) + succ_rank)

RankFrame == << DEFAULT_EXEC_COSTS, loads, exec_costs, comm_costs, dag,
                sorted_tasks, schedule, schedule_keys, node_availability,
                runs, run_inputs, returned, assigned_cost, last_load, sim, normalize_calls >>

\* Whether avg_exec of a call for the task raises: get_exec_cost divides the
\* table's cost by the capacity, a TypeError when the cost is a str.
AvgExecRaises(i, task_id) ==
  LET task_type == tasks[i][task_id].task_type
  IN  /\ task_type \in DOMAIN ExecCosts(i)
      /\ \E n \in NodeIds : ~IsNumber(ExecCosts(i)[task_type][NODES[n].type])

\* compute_all_ranks calls compute_upward_rank(task_id, memo) for the next
\* task of self.tasks; a task already in memo returns at once.
RankCall(i) ==
  /\ pc[i] = "ranking"
  /\ stack[i] = <<>>
  /\ idx[i] <= Len(DagOrder(dag[i]))
  /\ LET task_id == DagOrder(dag[i])[idx[i]]
     IN  /\ task_id \in DOMAIN memo[i] \/ ~AvgExecRaises(i, task_id)
         /\ stack' = [stack EXCEPT ![i] =
                        IF task_id \in DOMAIN memo[i] THEN <<>> ELSE << Frame(task_id) >>]
  /\ idx' = [idx EXCEPT ![i] = @ + 1]
  /\ UNCHANGED << pc, tasks, memo, error >>
  /\ UNCHANGED RankFrame

\* The innermost call reaches a successor that is in memo: the recursive call
\* returns memo[succ_id] and the loop folds it.
RankVisit(i) ==
  /\ pc[i] = "ranking"
  /\ stack[i] # <<>>
  /\ LET frame == TopFrame(i)
         succs == tasks[i][frame.task].successors
     IN  /\ frame.k <= Len(succs)
         /\ succs[frame.k] \in DOMAIN memo[i]
         /\ stack' = [stack EXCEPT ![i][Len(stack[i])] =
                        [frame EXCEPT !.k = @ + 1,
                                      !.max_successor_rank =
                                         FoldSuccessor(i, frame, memo[i][succs[frame.k]])]]
  /\ UNCHANGED << pc, tasks, memo, idx, error >>
  /\ UNCHANGED RankFrame

\* A recursive call that does not return at "if task_id in memo": it runs
\* the body again for a successor whose rank is stored.
RankRecurseNoMemo(i) ==
  /\ pc[i] = "ranking"
  /\ stack[i] # <<>>
  /\ Len(stack[i]) < RecursionLimit
  /\ LET frame == TopFrame(i)
         succs == tasks[i][frame.task].successors
     IN  /\ frame.k <= Len(succs)
         /\ ~AvgExecRaises(i, succs[frame.k])
         /\ stack' = [stack EXCEPT ![i] = Append(@, Frame(succs[frame.k]))]
  /\ UNCHANGED << pc, tasks, memo, idx, error >>
  /\ UNCHANGED RankFrame

\* The innermost call reaches a successor that is not in memo: it calls
\* compute_upward_rank for it.
RankRecurse(i) ==
  /\ pc[i] = "ranking"
  /\ stack[i] # <<>>
  /\ Len(stack[i]) < RecursionLimit
  /\ LET frame == TopFrame(i)
         succs == tasks[i][frame.task].successors
     IN  /\ frame.k <= Len(succs)
         /\ succs[frame.k] \notin DOMAIN memo[i]
         /\ ~AvgExecRaises(i, succs[frame.k])
         /\ stack' = [stack EXCEPT ![i] = Append(@, Frame(succs[frame.k]))]
  /\ UNCHANGED << pc, tasks, memo, idx, error >>
  /\ UNCHANGED RankFrame

\* The same call when the stack is as deep as Python allows: RecursionError
\* unwinds every frame and ends run_heft.
RankOverflow(i) ==
  /\ pc[i] = "ranking"
  /\ stack[i] # <<>>
  /\ Len(stack[i]) >= RecursionLimit
  /\ LET frame == TopFrame(i)
         succs == tasks[i][frame.task].successors
     IN  /\ frame.k <= Len(succs)
         /\ succs[frame.k] \notin DOMAIN memo[i]
  /\ stack' = [stack EXCEPT ![i] = <<>>]
  /\ pc' = [pc EXCEPT ![i] = "failed"]
  /\ error' = [error EXCEPT ![i] = "RecursionError"]
  /\ UNCHANGED << tasks, memo, idx >>
  /\ UNCHANGED RankFrame

\* A call of compute_upward_rank (from compute_all_ranks, or a recursive one
\* within the recursion limit) for a task whose avg_exec raises: TypeError
\* unwinds every frame and ends run_heft.
RankTypeError(i) ==
  /\ pc[i] = "ranking"
  /\ \/ /\ stack[i] = <<>>
        /\ idx[i] <= Len(DagOrder(dag[i]))
        /\ DagOrder(dag[i])[idx[i]] \notin DOMAIN memo[i]
        /\ AvgExecRaises(i, DagOrder(dag[i])[idx[i]])
     \/ /\ stack[i] # <<>>
        /\ Len(stack[i]) < RecursionLimit
        /\ LET frame == TopFrame(i)
               succs == tasks[i][frame.task].successors
           IN  /\ frame.k <= Len(succs)
               /\ succs[frame.k] \notin DOMAIN memo[i]
               /\ AvgExecRaises(i, succs[frame.k])
  /\ stack' = [stack EXCEPT ![i] = <<>>]
  /\ pc' = [pc EXCEPT ![i] = "failed"]
  /\ error' = [error EXCEPT ![i] = "TypeError"]
  /\ UNCHANGED << tasks, memo, idx >>
  /\ UNCHANGED RankFrame

\* The innermost call is past its loop (or its task has no successors): it
\* stores the rank in memo and in task.upward_rank and returns.
RankReturn(i) ==
  /\ pc[i] = "ranking"
  /\ stack[i] # <<>>
  /\ LET frame == TopFrame(i)
         rank  == RankOf(i, frame)
     IN  /\ frame.k > Len(tasks[i][frame.task].successors)
         /\ memo' = [memo EXCEPT ![i] =
                       [t \in DOMAIN @ \cup {frame.task} |->
                          IF t = frame.task THEN rank ELSE @[t]]]
         /\ tasks' = [tasks EXCEPT ![i][frame.task].upward_rank = rank]
  /\ stack' = [stack EXCEPT ![i] = SubSeq(@, 1, Len(@) - 1)]
  /\ UNCHANGED << pc, idx, error >>
  /\ UNCHANGED RankFrame

\* ---- step 3, the sort

\* A sort that puts tasks of equal rank in the reverse of their order in
\* self.tasks: the last task of the largest rank is taken first.
RECURSIVE SortedTiesReversed(_, _)
SortedTiesReversed(ids, rank) ==
  IF ids = <<>> THEN <<>>
  ELSE LET first == CHOOSE k \in 1..Len(ids) :
                      /\ \A j \in 1..Len(ids) : rank[ids[j]] <= rank[ids[k]]
                      /\ \A j \in (k + 1)..Len(ids) : rank[ids[j]] < rank[ids[k]]
           rest  == [j \in 1..(Len(ids) - 1) |-> IF j < first THEN ids[j] ELSE ids[j + 1]]
       IN  << ids[first] >> \o SortedTiesReversed(rest, rank)

\* sorted(ids, key=rank, reverse=True): Python's sort is stable, also with
\* reverse=True, so tasks of equal rank keep the order of self.tasks.  The
\* first task of the largest rank is taken, then the rest is sorted.
RECURSIVE SortedByRank(_, _)
SortedByRank(ids, rank) ==
  IF ids = <<>> THEN <<>>
  ELSE LET first == CHOOSE k \in 1..Len(ids) :
                      /\ \A j \in 1..Len(ids) : rank[ids[j]] <= rank[ids[k]]
                      /\ \A j \in 1..(k - 1) : rank[ids[j]] < rank[ids[k]]
           rest  == [j \in 1..(Len(ids) - 1) |-> IF j < first THEN ids[j] ELSE ids[j + 1]]
       IN  << ids[first] >> \o SortedByRank(rest, rank)

\* A sort that does not wait for compute_all_ranks: it may start between two
\* of its calls.
SortTasksEarly(i) ==
  /\ pc[i] = "ranking"
  /\ stack[i] = <<>>
  /\ sorted_tasks' = [sorted_tasks EXCEPT ![i] =
                        SortedByRank(DagOrder(dag[i]),
                                     [t \in DOMAIN tasks[i] |-> tasks[i][t].upward_rank])]
  /\ idx' = [idx EXCEPT ![i] = 1]
  /\ pc' = [pc EXCEPT ![i] = "schedule"]
  /\ UNCHANGED << DEFAULT_EXEC_COSTS, loads, exec_costs, comm_costs, dag, tasks,
                  memo, stack, schedule, schedule_keys, node_availability,
                  runs, error, run_inputs, returned, assigned_cost,
                  last_load, sim, normalize_calls >>

SortTasks(i) ==
  /\ pc[i] = "ranking"
  /\ stack[i] = <<>>
  /\ idx[i] > Len(DagOrder(dag[i]))
  /\ sorted_tasks' = [sorted_tasks EXCEPT ![i] =
                        SortedByRank(DagOrder(dag[i]),
                                     [t \in DOMAIN tasks[i] |-> tasks[i][t].upward_rank])]
  /\ idx' = [idx EXCEPT ![i] = 1]
  /\ pc' = [pc EXCEPT ![i] = "schedule"]
  /\ UNCHANGED << DEFAULT_EXEC_COSTS, loads, exec_costs, comm_costs, dag, tasks,
                  memo, stack, schedule, schedule_keys, node_availability,
                  runs, error, run_inputs, returned, assigned_cost,
                  last_load, sim, normalize_calls >>

\* ---- step 4, schedule_task

\* A pred_ready that leaves the communication cost out.
RECURSIVE PredReadyNoComm(_, _, _)
PredReadyNoComm(i, preds, node) ==
  IF preds = <<>> THEN 0
  ELSE LET pred_task == tasks[i][preds[Len(preds)]]
           before    == PredReadyNoComm(i, SubSeq(preds, 1, Len(preds) - 1), node)
       IN  IF pred_task.scheduled_node # "None"
             THEN Max2(before, pred_task.end_time)
             ELSE before

\* pred_ready of get_earliest_finish_time after the predecessors preds: a
\* predecessor whose scheduled_node is None is passed over.
RECURSIVE PredReady(_, _, _)
PredReady(i, preds, node) ==
  IF preds = <<>> THEN 0
  ELSE LET pred_task == tasks[i][preds[Len(preds)]]
           before    == PredReady(i, SubSeq(preds, 1, Len(preds) - 1), node)
       IN  IF pred_task.scheduled_node # "None"
             THEN Max2(before,
                       pred_task.end_time
                         + get_comm_cost(comm_costs[i], pred_task.scheduled_node, node, 1))
             ELSE before

\* A node_ready read from an availability map that all instances share.
NodeReadyShared(i, node) == node_availability[1][node]

\* node_ready = self.node_availability[node]
NodeReady(i, node) == node_availability[i][node]

\* An earliest finish time that starts the task as soon as its predecessors
\* allow, whether or not the node is free.
EarliestFinishIgnoringNode(i, task_id, node) ==
  LET task       == tasks[i][task_id]
      start_time == PredReady(i, task.predecessors, node)
  IN  [start |-> start_time,
       end   |-> start_time + get_exec_cost(ExecCosts(i), task.task_type, node)]

get_earliest_finish_time(i, task_id, node) ==
  LET task       == tasks[i][task_id]
      node_ready == NodeReady(i, node)
      pred_ready == PredReady(i, task.predecessors, node)
      start_time == Max2(node_ready, pred_ready)
      exec_time  == get_exec_cost(ExecCosts(i), task.task_type, node)
  IN  [start |-> start_time, end |-> start_time + exec_time]

\* A loop that returns the start time as the finish time.
RECURSIVE BestOverNoExec(_, _, _)
BestOverNoExec(i, task_id, nodes) ==
  IF nodes = <<>> THEN [node |-> "None", start |-> 0, end |-> 0]
  ELSE LET best == BestOverNoExec(i, task_id, SubSeq(nodes, 1, Len(nodes) - 1))
           node == nodes[Len(nodes)]
           eft  == get_earliest_finish_time(i, task_id, node)
       IN  IF best.node = "None" \/ eft.start < best.end
             THEN [node |-> node, start |-> eft.start, end |-> eft.start]
             ELSE best

\* A loop that tests "end <= best_end": of the nodes with the least finish
\* time it keeps the last.
RECURSIVE BestOverLastTie(_, _, _)
BestOverLastTie(i, task_id, nodes) ==
  IF nodes = <<>> THEN [node |-> "None", start |-> 0, end |-> 0]
  ELSE LET best == BestOverLastTie(i, task_id, SubSeq(nodes, 1, Len(nodes) - 1))
           node == nodes[Len(nodes)]
           eft  == get_earliest_finish_time(i, task_id, node)
       IN  IF best.node = "None" \/ eft.end <= best.end
             THEN [node |-> node, start |-> eft.start, end |-> eft.end]
             ELSE best

\* The loop of schedule_task over the nodes seen so far: best_node "None"
\* stands for the initial best_end of infinity.
RECURSIVE BestOver(_, _, _)
BestOver(i, task_id, nodes) ==
  IF nodes = <<>> THEN [node |-> "None", start |-> 0, end |-> 0]
  ELSE LET best == BestOver(i, task_id, SubSeq(nodes, 1, Len(nodes) - 1))
           node == nodes[Len(nodes)]
           eft  == get_earliest_finish_time(i, task_id, node)
       IN  IF best.node = "None" \/ eft.end < best.end
             THEN [node |-> node, start |-> eft.start, end |-> eft.end]
             ELSE best

\* The largest communication cost to node from the node of a scheduled
\* predecessor of the task (0 when it has none).
MaxPredComm(i, task_id, node) ==
  LET costs == {get_comm_cost(comm_costs[i], tasks[i][p].scheduled_node, node, 1) :
                  p \in {q \in Range(tasks[i][task_id].predecessors) :
                           tasks[i][q].scheduled_node # "None"}}
  IN  IF costs = {} THEN 0 ELSE CHOOSE c \in costs : \A d \in costs : d <= c

schedule_task(i) ==
  /\ pc[i] = "schedule"
  /\ idx[i] <= Len(sorted_tasks[i])
  /\ LET task_id == sorted_tasks[i][idx[i]]
         best    == BestOver(i, task_id, NodeOrder)
     IN  /\ tasks' = [tasks EXCEPT ![i][task_id] =
                        [@ EXCEPT !.scheduled_node = best.node,
                                  !.start_time = best.start,
                                  !.end_time = best.end]]
         /\ node_availability' = [node_availability EXCEPT ![i][best.node] = best.end]
         /\ schedule' = [schedule EXCEPT ![i] =
                           [t \in DOMAIN @ \cup {task_id} |->
                              IF t = task_id THEN << best.node, best.start, best.end >>
                                             ELSE @[t]]]
         /\ schedule_keys' = [schedule_keys EXCEPT ![i] =
                                IF task_id \in DOMAIN schedule[i] THEN @
                                                                  ELSE Append(@, task_id)]
         /\ assigned_cost' = [assigned_cost EXCEPT ![i] =
                                @ + (best.end - best.start)
                                  + MaxPredComm(i, task_id, best.node)]
  /\ idx' = [idx EXCEPT ![i] = @ + 1]
  /\ UNCHANGED << DEFAULT_EXEC_COSTS, loads, pc, exec_costs, comm_costs, dag,
                  memo, stack, sorted_tasks, runs, error, run_inputs, returned,
                  last_load, sim, normalize_calls >>

\* "return self.schedule"
ReturnSchedule(i) ==
  /\ pc[i] = "schedule"
  /\ idx[i] > Len(sorted_tasks[i])
  /\ pc' = [pc EXCEPT ![i] = "done"]
  /\ returned' = [returned EXCEPT ![i] =
                    Append(@, [schedule |-> schedule[i],
                               exec |-> run_inputs[i].exec,
                               comm |-> run_inputs[i].comm])]
  /\ UNCHANGED << DEFAULT_EXEC_COSTS, loads, exec_costs, comm_costs, dag, tasks,
                  memo, stack, idx, sorted_tasks, schedule, schedule_keys,
                  node_availability, runs, error, run_inputs, assigned_cost,
                  last_load, sim, normalize_calls >>

\* --------------------------------------------------------- print_schedule

\* sorted(keys, key=lambda t: self.schedule[t][1]): the sort is stable, keys
\* of equal start time keep the order of the dict, which is the order of
\* their first insertion.
RECURSIVE SortedByStart(_, _)
SortedByStart(keys, sched) ==
  IF keys = <<>> THEN <<>>
  ELSE LET first == CHOOSE k \in 1..Len(keys) :
                      /\ \A j \in 1..Len(keys) : sched[keys[k]][2] <= sched[keys[j]][2]
                      /\ \A j \in 1..(k - 1) : sched[keys[k]][2] < sched[keys[j]][2]
           rest  == [j \in 1..(Len(keys) - 1) |-> IF j < first THEN keys[j] ELSE keys[j + 1]]
       IN  << keys[first] >> \o SortedByStart(rest, sched)

\* The rows print_schedule prints, top to bottom.
print_schedule(i) ==
  LET order == SortedByStart(schedule_keys[i], schedule[i])
  IN  [k \in 1..Len(order) |->
         [task |-> order[k], node |-> schedule[i][order[k]][1],
          start |-> schedule[i][order[k]][2], end |-> schedule[i][order[k]][3]]]

\* ---------------------------------------------------- get_exclusion_info

\* A per-task answer whose zone is that of the first node of the schedule.
ExclusionInfoZoneOfFirst(i, task_id) ==
  IF task_id \notin {"None", ""} /\ task_id \in DOMAIN schedule[i]
    THEN [exclude_node |-> schedule[i][task_id][1],
          exclude_zone |-> NODES[schedule[i][schedule_keys[i][1]][1]].zone]
    ELSE LET scheduled_nodes == {schedule[i][t][1] : t \in DOMAIN schedule[i]}
         IN  [exclude_nodes |-> scheduled_nodes,
              exclude_zones |-> {NODES[n].zone : n \in scheduled_nodes}]

\* A summary that lists the zone of every node of the fleet.
ExclusionInfoAllZones(i, task_id) ==
  IF task_id \notin {"None", ""} /\ task_id \in DOMAIN schedule[i]
    THEN [exclude_node |-> schedule[i][task_id][1],
          exclude_zone |-> NODES[schedule[i][task_id][1]].zone]
    ELSE [exclude_nodes |-> {schedule[i][t][1] : t \in DOMAIN schedule[i]},
          exclude_zones |-> {NODES[n].zone : n \in NodeIds}]

\* A lookup without the membership test "task_id in self.schedule": an id the
\* schedule does not hold raises KeyError at self.schedule[task_id].
ExclusionInfoNoMembershipTest(i, task_id) ==
  IF task_id \notin {"None", ""}
    THEN IF task_id \in DOMAIN schedule[i]
           THEN [exclude_node |-> schedule[i][task_id][1],
                 exclude_zone |-> NODES[schedule[i][task_id][1]].zone]
           ELSE [raises |-> "KeyError"]
    ELSE LET scheduled_nodes == {schedule[i][t][1] : t \in DOMAIN schedule[i]}
         IN  [exclude_nodes |-> scheduled_nodes,
              exclude_zones |-> {NODES[n].zone : n \in scheduled_nodes}]

\* get_exclusion_info(task_id): the argument None is the string "None";
\* "if task_id" is false for None and for the empty string.  The two lists of
\* the summary are built from sets, in no fixed order: they are sets here.
get_exclusion_info(i, task_id) ==
  IF task_id \notin {"None", ""} /\ task_id \in DOMAIN schedule[i]
    THEN LET node == schedule[i][task_id][1]
             zone == NODES[node].zone
         IN  [exclude_node |-> node, exclude_zone |-> zone]
    ELSE LET scheduled_nodes == {schedule[i][t][1] : t \in DOMAIN schedule[i]}
             scheduled_zones == {NODES[n].zone : n \in scheduled_nodes}
         IN  [exclude_nodes |-> scheduled_nodes, exclude_zones |-> scheduled_zones]

\* ------------------------------------------- heft_resilience_sim.py

NODE_ZONE_MAP ==
  [n \in NodeIds |->
     CASE n \in {"master-m001", "worker-w001", "worker-w002"} -> "R1"
       [] n \in {"master-m002", "worker-w003", "worker-w004"} -> "R2"
       [] OTHER -> "R3"]

ZONE_NODES ==
  [z \in {"R1", "R2", "R3"} |->
     CASE z = "R1" -> << "master-m001", "worker-w001", "worker-w002" >>
       [] z = "R2" -> << "master-m002", "worker-w003", "worker-w004" >>
       [] OTHER    -> << "master-m003", "worker-w005", "worker-w006" >>]

WORKER_NODES == << "worker-w001", "worker-w002", "worker-w003",
                   "worker-w004", "worker-w005", "worker-w006" >>

\* all_zones of get_eligible_zones
all_zones == << "R1", "R2", "R3" >>

\* The --exclude-node and --exclude-zone arguments the model draws.
ExcludeNodeArgs ==
  { {}, {"worker-w001"}, {"worker-w001", "worker-w002", "worker-w003"},
    Range(WORKER_NODES) }

ExcludeZoneArgs == { {}, {"R1"}, {"R1", "R2"}, {"R1", "R2", "R3"} }

\* Everything but sim: the simulator is another process and touches none of it.
SchedulerVars == << DEFAULT_EXEC_COSTS, loads, pc, exec_costs, comm_costs, dag,
                    tasks, memo, stack, idx, sorted_tasks, schedule,
                    schedule_keys, node_availability, runs, error, run_inputs,
                    returned, assigned_cost, last_load, normalize_calls >>

\* HEFTResilienceSimulator(exclude_nodes, exclude_zones); k8s is whether the
\* kubernetes module could be imported (K8S_AVAILABLE).
SimConstruct(k8s, exclude_nodes, exclude_zones) ==
  /\ sim.state = "none"
  /\ sim' = [sim EXCEPT !.state = "ready", !.k8s = k8s,
                         !.exclude_nodes = exclude_nodes,
                         !.exclude_zones = exclude_zones]
  /\ UNCHANGED SchedulerVars

\* The elements of list xs that are not in the set excluded, in order.
RECURSIVE NotExcluded(_, _)
NotExcluded(xs, excluded) ==
  IF xs = <<>> THEN <<>>
  ELSE IF Head(xs) \in excluded THEN NotExcluded(Tail(xs), excluded)
  ELSE << Head(xs) >> \o NotExcluded(Tail(xs), excluded)

get_eligible_nodes ==
  LET eligible == NotExcluded(WORKER_NODES, sim.exclude_nodes)
  IN  IF eligible = <<>> THEN WORKER_NODES ELSE eligible

get_eligible_zones ==
  LET eligible == NotExcluded(all_zones, sim.exclude_zones)
  IN  IF eligible = <<>> THEN all_zones ELSE eligible

\* The result dict a call returns, appended to the results so far.
SimResult(kind, status) ==
  Append(sim.results,
         [kind |-> kind, status |-> status, target_node |-> sim.target_node,
          target_zone |-> sim.target_zone, target_nodes |-> sim.target_nodes])

\* simulate_node_failure up to its first API call: select_random_node draws
\* the target with random.choice.  Without the kubernetes module the call
\* only logs and sleeps, and returns SUCCESS.
simulate_node_failure(target_node) ==
  /\ sim.state = "ready"
  /\ sim.calls < MaxSimCalls
  /\ target_node \in Range(get_eligible_nodes)
  /\ LET chosen == [sim EXCEPT !.calls = @ + 1,
                               !.target_node = target_node,
                               !.target_zone = NODE_ZONE_MAP[target_node],
                               !.target_nodes = << target_node >>]
     IN  sim' = IF sim.k8s
                  THEN [chosen EXCEPT !.state = "node_cordon"]
                  ELSE [chosen EXCEPT !.results =
                          Append(@, [kind |-> "node", status |-> "SUCCESS",
                                     target_node |-> target_node,
                                     target_zone |-> NODE_ZONE_MAP[target_node],
                                     target_nodes |-> << target_node >>])]
  /\ UNCHANGED SchedulerVars

\* v1.patch_node(target_node, {"spec": {"unschedulable": True}})
NodeCordon ==
  /\ sim.state = "node_cordon"
  /\ sim' = [sim EXCEPT !.state = "node_taint",
                         !.unschedulable = @ \cup {sim.target_node}]
  /\ UNCHANGED SchedulerVars

\* read_node, append the out-of-service taint, patch_node; then the sleep.
NodeTaint ==
  /\ sim.state = "node_taint"
  /\ sim' = [sim EXCEPT !.state = "node_uncordon",
                         !.tainted = @ \cup {sim.target_node}]
  /\ UNCHANGED SchedulerVars

\* v1.patch_node(target_node, {"spec": {"unschedulable": False}})
NodeUncordon ==
  /\ sim.state = "node_uncordon"
  /\ sim' = [sim EXCEPT !.state = "node_untaint",
                         !.unschedulable = @ \ {sim.target_node}]
  /\ UNCHANGED SchedulerVars

\* read_node, drop the out-of-service taint, patch_node; the call returns.
NodeUntaint ==
  /\ sim.state = "node_untaint"
  /\ sim' = [sim EXCEPT !.state = "ready",
                         !.tainted = @ \ {sim.target_node},
                         !.results = SimResult("node", "SUCCESS")]
  /\ UNCHANGED SchedulerVars

\* simulate_rack_failure up to its first API call: select_random_zone draws
\* the zone, and every node of ZONE_NODES[zone] is a target.
simulate_rack_failure(target_zone) ==
  /\ sim.state = "ready"
  /\ sim.calls < MaxSimCalls
  /\ target_zone \in Range(get_eligible_zones)
  /\ LET chosen == [sim EXCEPT !.calls = @ + 1,
                               !.target_node = "None",
                               !.target_zone = target_zone,
                               !.target_nodes = ZONE_NODES[target_zone],
                               !.pos = 1]
     IN  sim' = IF sim.k8s
                  THEN [chosen EXCEPT !.state = "rack_cordon"]
                  ELSE [chosen EXCEPT !.results =
                          Append(@, [kind |-> "rack", status |-> "SUCCESS",
                                     target_node |-> "None",
                                     target_zone |-> target_zone,
                                     target_nodes |-> ZONE_NODES[target_zone]])]
  /\ UNCHANGED SchedulerVars

\* The first loop, for the node at pos: patch_node(unschedulable: True).
RackCordon ==
  /\ sim.state = "rack_cordon"
  /\ sim' = [sim EXCEPT !.state = "rack_taint",
                         !.unschedulable = @ \cup {sim.target_nodes[sim.pos]}]
  /\ UNCHANGED SchedulerVars

\* The first loop, for the node at pos: the taint; after the last node the
\* sleep, and the second loop starts.
RackTaint ==
  /\ sim.state = "rack_taint"
  /\ sim' = [sim EXCEPT !.tainted = @ \cup {sim.target_nodes[sim.pos]},
                         !.state = IF sim.pos < Len(sim.target_nodes)
                                     THEN "rack_cordon" ELSE "rack_uncordon",
                         !.pos = IF sim.pos < Len(sim.target_nodes) THEN @ + 1 ELSE 1]
  /\ UNCHANGED SchedulerVars

\* The second loop, for the node at pos: patch_node(unschedulable: False).
RackUncordon ==
  /\ sim.state = "rack_uncordon"
  /\ sim' = [sim EXCEPT !.state = "rack_untaint",
                         !.unschedulable = @ \ {sim.target_nodes[sim.pos]}]
  /\ UNCHANGED SchedulerVars

\* The second loop, for the node at pos: the taint is dropped; after the
\* last node the call sleeps and returns.
RackUntaint ==
  /\ sim.state = "rack_untaint"
  /\ sim' = IF sim.pos < Len(sim.target_nodes)
               THEN [sim EXCEPT !.tainted = @ \ {sim.target_nodes[sim.pos]},
                                !.state = "rack_uncordon", !.pos = @ + 1]
               ELSE [sim EXCEPT !.tainted = @ \ {sim.target_nodes[sim.pos]},
                                !.state = "ready",
                                !.results = SimResult("rack", "SUCCESS")]
  /\ UNCHANGED SchedulerVars

\* The API call a step is about to make raises: "except Exception" sets the
\* status to FAILED and the call returns, the cluster left as it is.
ApiRaises ==
  /\ sim.state \notin {"none", "ready"}
  /\ sim' = [sim EXCEPT !.state = "ready",
                         !.results =
                            SimResult(IF sim.target_node = "None" THEN "rack" ELSE "node",
                                      "FAILED")]
  /\ UNCHANGED SchedulerVars

\* ------------------------------------------------------------------ spec

Next ==
  \/ \E i \in Inst, ea \in ExecArgs, ca \in CommArgs, g \in Dags : Construct(i, ea, ca, g)
  \/ \E i \in Inst, feed \in Feeds : load_benchmark_data(i, feed)
  \/ \E i \in Inst : define_dag(i)
  \/ \E i \in Inst : RankCall(i)
  \/ \E i \in Inst : RankVisit(i)
  \/ \E i \in Inst : RankRecurse(i)
  \/ \E i \in Inst : RankOverflow(i)
  \/ \E i \in Inst : RankTypeError(i)
  \/ \E i \in Inst : RankReturn(i)
  \/ \E i \in Inst : SortTasks(i)
  \/ \E i \in Inst : schedule_task(i)
  \/ \E i \in Inst : ReturnSchedule(i)

Spec == Init /\ [][Next]_vars

\* A call of run_heft runs on: the program is single threaded and every
\* statement of run_heft ends, so the step the call is at is taken.
RunStep ==
  \E i \in Inst :
  \/ RankCall(i)
  \/ RankVisit(i)
  \/ RankRecurse(i)
  \/ RankOverflow(i)
  \/ RankTypeError(i)
  \/ RankReturn(i)
  \/ SortTasks(i)
  \/ schedule_task(i)
  \/ ReturnSchedule(i)

\* Weak fairness of RunStep, written out: a step of a call is possible
\* exactly while an instance is inside run_heft, so either no instance is
\* inside run_heft again and again or a call takes steps again and again.
SpecLive == Init /\ [][Next]_vars /\ ([]<>Idle \/ []<><<RunStep>>_vars)

\* The calls of _normalize_task_type alone, on every name the model spells.
NextNormalize == \E step_name \in Spelled : NormalizeCall(step_name)

SpecNormalize == Init /\ [][NextNormalize]_vars

\* The fault-injection process alone.
NextSim ==
  \/ \E k8s \in BOOLEAN, en \in ExcludeNodeArgs, ez \in ExcludeZoneArgs :
       SimConstruct(k8s, en, ez)
  \/ \E n \in NodeIds : simulate_node_failure(n)
  \/ NodeCordon
  \/ NodeTaint
  \/ NodeUncordon
  \/ NodeUntaint
  \/ \E z \in Zones : simulate_rack_failure(z)
  \/ RackCordon
  \/ RackTaint
  \/ RackUncordon
  \/ RackUntaint
  \/ ApiRaises

SpecSim == Init /\ [][NextSim]_vars

\* ----------------------------------------------------------------- claims

Edges(i) == {<<u, v>> \in (DOMAIN tasks[i]) \X (DOMAIN tasks[i]) :
               v \in Range(tasks[i][u].successors)}

ZoneOf(node) == NODES[node].zone

\* C1  Precedence preservation: when run_heft has returned, every edge u -> v
\* of the task graph has end_time(u) + get_comm_cost(scheduled_node(u),
\* scheduled_node(v)) <= start_time(v).
C1_PrecedencePreserved ==
  \A i \in Inst : pc[i] = "done" =>
    \A e \in Edges(i) :
      LET u == tasks[i][e[1]]
          v == tasks[i][e[2]]
      IN  /\ u.scheduled_node # "None"
          /\ v.scheduled_node # "None"
          /\ u.end_time + get_comm_cost(comm_costs[i], u.scheduled_node, v.scheduled_node, 1)
               <= v.start_time

\* A finished run in which node-simulation waits for a health check that ran
\* in another zone.
C1_Witness ==
  \E i \in Inst :
    /\ pc[i] = "done"
    /\ dag[i] = "resilience"
    /\ \E h \in {"health-check-1", "health-check-2", "health-check-3"} :
         LET u == tasks[i][h]
             v == tasks[i]["node-simulation"]
         IN  /\ ZoneOf(u.scheduled_node) # ZoneOf(v.scheduled_node)
             /\ v.start_time =
                  u.end_time + get_comm_cost(comm_costs[i], u.scheduled_node, v.scheduled_node, 1)

\* C2  Monotonic node availability: no step lowers node_availability[n] of any
\* instance, for any node n.
C2_MonotonicAvailability ==
  [][\A i \in Inst, n \in NodeIds : node_availability'[i][n] >= node_availability[i][n]]_vars

\* A node that has been given two tasks and whose availability has moved.
C2_Witness ==
  \E i \in Inst, n \in NodeIds :
    /\ Cardinality({t \in DOMAIN schedule[i] : schedule[i][t][1] = n}) >= 2
    /\ node_availability[i][n] > 0
    /\ \E t \in DOMAIN schedule[i] : schedule[i][t] = << n, schedule[i][t][2], node_availability[i][n] >>

\* C3  Determinism: two instances that ran run_heft for the first time on the
\* same graph and the same cost tables returned the same schedule, hence the
\* same makespan.
C3_Deterministic ==
  \A i \in Inst, j \in Inst :
    ( /\ returned[i] # <<>>
      /\ returned[j] # <<>>
      /\ dag[i] = dag[j]
      /\ returned[i][1].exec = returned[j][1].exec
      /\ returned[i][1].comm = returned[j][1].comm )
    => returned[i][1].schedule = returned[j][1].schedule

\* Two different instances have each returned a schedule for the same inputs.
C3_Witness ==
  \E i \in Inst, j \in Inst :
    /\ i # j
    /\ returned[i] # <<>>
    /\ returned[j] # <<>>
    /\ dag[i] = dag[j]
    /\ returned[i][1].exec = returned[j][1].exec
    /\ returned[i][1].comm = returned[j][1].comm
    /\ DOMAIN returned[i][1].schedule = DagIds("resilience")

\* C4  Cycle rejection: on a task graph with a cycle the run computes no rank
\* and makes no schedule entry, and the error it ends with is CycleDetected.
C4_CycleRejected ==
  \A i \in Inst :
    (HasCycle(dag[i]) /\ pc[i] \notin {"none", "ready"}) =>
      /\ memo[i] = EmptyDict
      /\ \A t \in DOMAIN tasks[i] : tasks[i][t].upward_rank = 0
      /\ schedule[i] = EmptyDict
      /\ pc[i] \in {"ranking", "failed"}
      /\ pc[i] = "failed" => error[i] = "CycleDetected"

\* makespan = max(s[2] for s in self.schedule.values())
Makespan(i) ==
  LET ends == {schedule[i][t][3] : t \in DOMAIN schedule[i]}
  IN  CHOOSE m \in ends : \A e \in ends : e <= m

\* The execution cost of task t on the node the schedule gives it, by the
\* cost table the run used.
ExecOnAssigned(i, t) ==
  get_exec_cost(run_inputs[i].exec, tasks[i][t].task_type, schedule[i][t][1])

SumOverTasks(i, f(_)) ==
  SumSeq([k \in 1..Len(DagOrder(dag[i])) |-> f(DagOrder(dag[i])[k])])

\* C5 as stated  Makespan bounds: when run_heft has returned, the makespan is
\* at least the execution cost of every task on its assigned node and at most
\* the sum of these costs over all tasks.
C5_MakespanBounds ==
  \A i \in Inst : pc[i] = "done" =>
    /\ \A t \in DOMAIN schedule[i] : Makespan(i) >= ExecOnAssigned(i, t)
    /\ Makespan(i) <= SumOverTasks(i, LAMBDA t : ExecOnAssigned(i, t))

\* C5 as amended  When run_heft has returned, the makespan is at least the
\* execution cost of every task on its assigned node, and at most the sum, over
\* every assignment the instance has made since its construction, of the
\* task's execution cost on the chosen node plus the largest communication
\* cost to it from a predecessor's node; after the first run_heft of an
\* instance that is the sum over all tasks of these two costs.
C5_MakespanBoundsWithComm ==
  \A i \in Inst : pc[i] = "done" =>
    /\ \A t \in DOMAIN schedule[i] : Makespan(i) >= ExecOnAssigned(i, t)
    /\ Makespan(i) <= assigned_cost[i]
    /\ runs[i] = 1 =>
         Makespan(i) <= SumOverTasks(i, LAMBDA t :
                          ExecOnAssigned(i, t) + MaxPredComm(i, t, schedule[i][t][1]))

\* A first run whose makespan is larger than the sum of the execution costs.
C5_Witness ==
  \E i \in Inst :
    /\ pc[i] = "done"
    /\ runs[i] = 1
    /\ Makespan(i) > SumOverTasks(i, LAMBDA t : ExecOnAssigned(i, t))

\* The sum over the fleet of the execution cost of a task type.
SumExec(costs, task_type) ==
  SumSeq([k \in 1..Len(NodeOrder) |-> get_exec_cost(costs, task_type, NodeOrder[k])])

\* C6  Rank lower bound: once compute_all_ranks is over, the upward rank of
\* every task is at least its execution cost averaged over the nodes (rank
\* times the number of nodes is at least the sum of the costs).
C6_RankLowerBound ==
  \A i \in Inst : pc[i] \in {"schedule", "done"} =>
    \A t \in DOMAIN tasks[i] :
      tasks[i][t].upward_rank * Len(NodeOrder)
        >= SumExec(run_inputs[i].exec, tasks[i][t].task_type)

\* All ranks are computed and a task with successors ranks above its own
\* average cost.
C6_Witness ==
  \E i \in Inst :
    /\ pc[i] = "schedule"
    /\ \E t \in DOMAIN tasks[i] :
         /\ tasks[i][t].successors # <<>>
         /\ tasks[i][t].upward_rank * Len(NodeOrder)
              > SumExec(run_inputs[i].exec, tasks[i][t].task_type)

\* C7  Sink exactness: a task without successors whose rank has been computed
\* has exactly its execution cost averaged over the nodes as its rank.
C7_SinkExact ==
  \A i \in Inst : \A t \in DOMAIN memo[i] :
    tasks[i][t].successors = <<>> =>
      /\ tasks[i][t].upward_rank = memo[i][t]
      /\ tasks[i][t].upward_rank * Len(NodeOrder)
           = SumExec(run_inputs[i].exec, tasks[i][t].task_type)

\* The rank of a sink has been computed, for a table changed by a feed.
C7_Witness ==
  \E i \in Inst : \E t \in DOMAIN memo[i] :
    /\ tasks[i][t].successors = <<>>
    /\ tasks[i][t].upward_rank > 0
    /\ run_inputs[i].exec # InitialExecCosts

\* C8  Idempotent re-run: a second run_heft on the same instance, with the
\* cost tables of the first, returns the schedule the first returned.
C8_IdempotentRerun ==
  \A i \in Inst :
    ( /\ Len(returned[i]) >= 2
      /\ returned[i][2].exec = returned[i][1].exec
      /\ returned[i][2].comm = returned[i][1].comm )
    => returned[i][2].schedule = returned[i][1].schedule

\* The task types a caller may name: those of the default table and one more.
TaskTypes == DOMAIN InitialExecCosts \cup {"CLEANUP"}

\* exec_costs[task_type], or the default pair for a type the table lacks.
BasePair(costs, task_type) ==
  IF task_type \in DOMAIN costs THEN costs[task_type]
  ELSE [master |-> Sec(100), worker |-> Sec(80)]

\* C9  Between calls, for the table of every constructed instance,
\* get_exec_cost(task_type, node) is exec_costs[task_type][class of node]
\* (a number) divided by the node's capacity, with the pair {master: 100, worker: 80} for
\* a type the table lacks; and every scheduled task runs for that long.
C9_ExecCost ==
  \A i \in Inst : pc[i] # "none" =>
    /\ Idle =>
         \A tt \in TaskTypes, n \in NodeIds :
           IsNumber(BasePair(ExecCosts(i), tt)[NODES[n].type]) =>
             get_exec_cost(ExecCosts(i), tt, n) * NODES[n].capacity
               = 10 * BasePair(ExecCosts(i), tt)[NODES[n].type]
    /\ \A t \in DOMAIN tasks[i] :
         tasks[i][t].scheduled_node # "None" =>
           (tasks[i][t].end_time - tasks[i][t].start_time)
               * NODES[tasks[i][t].scheduled_node].capacity
             = 10 * BasePair(run_inputs[i].exec, tasks[i][t].task_type)
                      [NODES[tasks[i][t].scheduled_node].type]

\* A task whose type the table lacks has been scheduled on a worker for 80 s.
C9_Witness ==
  \E i \in Inst : \E t \in DOMAIN tasks[i] :
    /\ tasks[i][t].scheduled_node # "None"
    /\ tasks[i][t].task_type \notin DOMAIN run_inputs[i].exec
    /\ NODES[tasks[i][t].scheduled_node].type = "worker"
    /\ tasks[i][t].end_time - tasks[i][t].start_time = Sec(80)

\* data_size arguments (whole numbers).
DataSizes == {1, 2, 3}

\* comm_costs[(zone, zone)], or 1.0 for a pair the table lacks.
UnitComm(costs, src_zone, dst_zone) ==
  IF << src_zone, dst_zone >> \in DOMAIN costs THEN costs[<< src_zone, dst_zone >>]
  ELSE Tenths(10)

\* C10  Between calls, for the table of every constructed instance,
\* get_comm_cost(src, dst, data_size) is comm_costs[(zone(src), zone(dst))]
\* times data_size, with 1.0 for a zone pair the table lacks; COMM_COSTS holds
\* every same-zone pair, each cheaper than every cross-zone pair.
C10_CommCost ==
  /\ \A i \in Inst : (pc[i] # "none" /\ Idle) =>
       \A src \in NodeIds, dst \in NodeIds, d \in DataSizes :
         get_comm_cost(comm_costs[i], src, dst, d)
           = UnitComm(comm_costs[i], ZoneOf(src), ZoneOf(dst)) * d
  /\ \A z \in Zones :
       /\ << z, z >> \in DOMAIN COMM_COSTS
       /\ \A p \in DOMAIN COMM_COSTS : p[1] # p[2] => COMM_COSTS[<< z, z >>] < COMM_COSTS[p]

\* A scheduled task starts one second (the default cost) after a predecessor
\* ended, the pair of their zones being absent from the instance's table.
C10_Witness ==
  \E i \in Inst : \E e \in Edges(i) :
    LET u == tasks[i][e[1]]
        v == tasks[i][e[2]]
    IN  /\ u.scheduled_node # "None"
        /\ v.scheduled_node # "None"
        /\ << ZoneOf(u.scheduled_node), ZoneOf(v.scheduled_node) >> \notin DOMAIN comm_costs[i]
        /\ v.start_time = u.end_time + Tenths(10)

\* ---- load_benchmark_data

\* What each step name is to be normalized to, rule by rule.
NormalizedAs ==
  [s \in Spelled |->
     CASE s \in {"health_check_1", "node_health_check_2_sim", "health_check_3_final",
                 "Health_Check", "HEALTH_CHECK", "HEALTH_CHECK_1", "HEALTH_CHECK_2",
                 "HEALTH_CHECK_3"} -> "HEALTH_CHECK"
       [] s \in {"node-simulation", "rack_node_sim", "NODE_SIMULATION"} -> "NODE_SIMULATION"
       [] s \in {"rack_sim", "interim_rack_sim", "RACK_SIMULATION"} -> "RACK_SIMULATION"
       [] s \in {"interim", "final_interim", "INTERIM", "INTERIM_HEALTH_CHECK"}
            -> "INTERIM_HEALTH_CHECK"
       [] s \in {"final", "init_final", "FINAL", "FINAL_HEALTH_CHECK"} -> "FINAL_HEALTH_CHECK"
       [] s \in {"init", "INIT", "INITIALIZE"} -> "INITIALIZE"
       [] s \in {"cleanup", "CLEANUP"} -> "CLEANUP"
       [] s \in {"node", "NODE"} -> "NODE"
       [] s = "SIM" -> "SIM"
       [] OTHER -> "RACK"]

\* The table the last load_benchmark_data wrote to, as it is now.
LoadedTable ==
  IF last_load.table = 0 THEN DEFAULT_EXEC_COSTS ELSE exec_costs[last_load.table].own

\* The step raises inside the loop: its stats is no dict, or its mean is a
\* str and its type is a key of the table.
StepRaises(item) ==
  \/ item.stats # "dict"
  \/ /\ ~IsNumber(item.mean)
     /\ NormalizedAs[item.step] \in DOMAIN last_load.before

\* The position of the first step of the last feed that raises (one past the
\* end when none does; 0 when the document could not be read at all).
FirstRaise ==
  LET items == last_load.feed.items
      at    == {k \in 1..Len(items) : StepRaises(items[k])}
  IN  IF last_load.feed.doc # "ok" THEN 0
      ELSE IF at = {} THEN Len(items) + 1
      ELSE CHOOSE k \in at : \A j \in at : k <= j

\* The type the raising step names, when it was a str mean that raised.
RaisedType ==
  LET items == last_load.feed.items
  IN  IF FirstRaise \in 1..Len(items) /\ items[FirstRaise].stats = "dict"
        THEN NormalizedAs[items[FirstRaise].step]
        ELSE "None"

\* The position of the last step before the first raise that reports a
\* non-zero numeric mean for task type tt (0 when there is none).
LastStepFor(tt) ==
  LET items == last_load.feed.items
      at    == {k \in 1..Len(items) :
                  /\ k < FirstRaise
                  /\ items[k].mean > 0
                  /\ NormalizedAs[items[k].step] = tt}
  IN  IF at = {} THEN 0 ELSE CHOOSE k \in at : \A j \in at : j <= k

\* C11 as stated  Cost override: after load_benchmark_data, a task type that
\* a step of the feed names has the reported mean as worker cost and keeps the
\* master cost it had (one was present); a type no step names keeps its costs.
C11_CostOverride ==
  loads > 0 =>
    \A tt \in DOMAIN last_load.before :
      tt # RaisedType =>
        IF LastStepFor(tt) > 0
          THEN /\ LoadedTable[tt].worker = last_load.feed.items[LastStepFor(tt)].mean
               /\ LoadedTable[tt].master = last_load.before[tt].master
          ELSE LoadedTable[tt] = last_load.before[tt]

\* C11 as amended  After load_benchmark_data, a task type of the table named
\* by a step that the loop reached before the first raising step, with a
\* non-zero numeric mean, has that mean (of the last such step) as worker cost
\* and 1.2 times that mean as master cost, whether or not a master cost was
\* present; every other type keeps its costs, but for the type named by the
\* step that raised.
C11_CostOverrideAlways ==
  loads > 0 =>
    \A tt \in DOMAIN last_load.before :
      tt # RaisedType =>
        IF LastStepFor(tt) > 0
          THEN LET mean == last_load.feed.items[LastStepFor(tt)].mean
               IN  /\ LoadedTable[tt].worker = mean
                   /\ LoadedTable[tt].master * 10 = mean * 12
          ELSE LoadedTable[tt] = last_load.before[tt]

\* A feed has been loaded that names one type twice and another not at all:
\* the later mean stands, with a master cost that differs from the old one.
C11_Witness ==
  /\ loads > 0
  /\ \E tt \in DOMAIN last_load.before :
       /\ LastStepFor(tt) > 1
       /\ \E k \in 1..(LastStepFor(tt) - 1) :
            /\ NormalizedAs[last_load.feed.items[k].step] = tt
            /\ last_load.feed.items[k].mean # last_load.feed.items[LastStepFor(tt)].mean
       /\ LoadedTable[tt].master # last_load.before[tt].master
  /\ \E tt \in DOMAIN last_load.before :
       LastStepFor(tt) = 0 /\ LoadedTable[tt] = last_load.before[tt]

\* C12  Feed robustness: load_benchmark_data returns normally for every
\* feed, and afterwards the cost pair of every task type is either the pair it
\* had before the call or a complete override (worker = mean, master = 1.2 *
\* mean) by a numeric mean the feed reports.
C12_FeedRobust ==
  loads > 0 =>
    /\ last_load.printed \in {"Loaded", "Warning"}
    /\ \A tt \in DOMAIN LoadedTable :
         \/ LoadedTable[tt] = last_load.before[tt]
         \/ \E k \in 1..Len(last_load.feed.items) :
              LET mean == last_load.feed.items[k].mean
              IN  /\ mean > 0
                  /\ LoadedTable[tt].worker = mean
                  /\ LoadedTable[tt].master * 10 = mean * 12

\* ---- _normalize_task_type

\* C13  Step-name normalization: every call of _normalize_task_type returned
\* what the rules, applied in their order to the upper-cased name, give for
\* its argument; each of the six task-type names is returned for itself.
C13_Normalized ==
  \A k \in 1..Len(normalize_calls) :
    /\ normalize_calls[k].result = NormalizedAs[normalize_calls[k].step]
    /\ normalize_calls[k].step \in DOMAIN InitialExecCosts =>
         normalize_calls[k].result = normalize_calls[k].step

\* A name that two rules match and a task-type name have been normalized.
C13_Witness ==
  /\ Len(normalize_calls) = MaxCalls
  /\ normalize_calls[1] = [step |-> "init_final", result |-> "FINAL_HEALTH_CHECK"]
  /\ normalize_calls[2] = [step |-> "INITIALIZE", result |-> "INITIALIZE"]

\* ---- get_exclusion_info

\* The nodes of each zone, as the fleet is laid out.
NodesOfZone ==
  [z \in {"R1", "R2", "R3"} |->
     CASE z = "R1" -> {"master-m001", "worker-w001", "worker-w002"}
       [] z = "R2" -> {"master-m002", "worker-w003", "worker-w004"}
       [] OTHER    -> {"master-m003", "worker-w005", "worker-w006"}]

\* C14  Per-task exclusion: when run_heft has returned, for every task id of
\* the schedule get_exclusion_info(task_id) is exactly {exclude_node: the node
\* the task was assigned to, exclude_zone: the zone that node lies in}.
C14_PerTaskExclusion ==
  \A i \in Inst : pc[i] = "done" =>
    \A t \in DOMAIN schedule[i] :
      LET info == get_exclusion_info(i, t)
      IN  /\ DOMAIN info = {"exclude_node", "exclude_zone"}
          /\ info.exclude_node = tasks[i][t].scheduled_node
          /\ info.exclude_node = returned[i][Len(returned[i])].schedule[t][1]
          /\ info.exclude_node \in NodesOfZone[info.exclude_zone]

\* A finished run whose tasks lie in two zones at least.
C14_Witness ==
  \E i \in Inst :
    /\ pc[i] = "done"
    /\ \E t \in DOMAIN schedule[i], u \in DOMAIN schedule[i] :
         get_exclusion_info(i, t).exclude_zone # get_exclusion_info(i, u).exclude_zone

\* C15  Exclusion summary: when run_heft has returned, get_exclusion_info()
\* gives as exclude_nodes the set of nodes that have a task and as
\* exclude_zones the set of zones of those nodes; the answer of every per-task
\* query lies in them.
C15_ExclusionSummary ==
  \A i \in Inst : pc[i] = "done" =>
    LET info == get_exclusion_info(i, "None")
        used == {n \in NodeIds : \E t \in DOMAIN tasks[i] : tasks[i][t].scheduled_node = n}
    IN  /\ DOMAIN info = {"exclude_nodes", "exclude_zones"}
        /\ info.exclude_nodes = used
        /\ info.exclude_zones = {z \in DOMAIN NodesOfZone : NodesOfZone[z] \cap used # {}}
        /\ \A t \in DOMAIN schedule[i] :
             /\ get_exclusion_info(i, t).exclude_node \in info.exclude_nodes
             /\ get_exclusion_info(i, t).exclude_zone \in info.exclude_zones

\* A finished run that used several nodes and left a zone unused.
C15_Witness ==
  \E i \in Inst :
    /\ pc[i] = "done"
    /\ Cardinality(get_exclusion_info(i, "None").exclude_nodes) >= 2
    /\ get_exclusion_info(i, "None").exclude_zones # Zones

\* ---- print_schedule

\* The task ids in the order of str comparison.
IdsInOrder ==
  << "A", "B", "C", "a", "b", "final-health-check", "health-check-1",
     "health-check-2", "health-check-3", "initialize", "interim-health-check",
     "node-simulation", "rack-simulation", "root", "x", "y" >>

IdBefore(s, t) ==
  \E k \in 1..Len(IdsInOrder), l \in 1..Len(IdsInOrder) :
    IdsInOrder[k] = s /\ IdsInOrder[l] = t /\ k < l

\* C17  Timeline order: when run_heft has returned, the rows of the report
\* are those of the schedule, sorted by start time, and rows of equal start
\* time are in the order of their task ids.
C17_TimelineOrder ==
  \A i \in Inst : pc[i] = "done" =>
    LET rows == print_schedule(i)
    IN  /\ {rows[k].task : k \in 1..Len(rows)} = DOMAIN schedule[i]
        /\ \A k \in 1..(Len(rows) - 1) :
             \/ rows[k].start < rows[k + 1].start
             \/ /\ rows[k].start = rows[k + 1].start
                /\ IdBefore(rows[k].task, rows[k + 1].task)

\* ---- get_earliest_finish_time

\* C18  Broken graph is fatal: no task is assigned while one of its
\* predecessors has no node, so every task that has a node starts no earlier
\* than each predecessor's end plus the communication cost; a run that meets
\* an unscheduled predecessor ends with an error instead.
C18_BrokenGraphFatal ==
  \A i \in Inst : \A t \in DOMAIN tasks[i] :
    tasks[i][t].scheduled_node # "None" =>
      \A k \in 1..Len(tasks[i][t].predecessors) :
        LET p == tasks[i][tasks[i][t].predecessors[k]]
        IN  /\ p.scheduled_node # "None"
            /\ p.end_time + get_comm_cost(comm_costs[i], p.scheduled_node,
                                          tasks[i][t].scheduled_node, 1)
                 <= tasks[i][t].start_time

\* ---- __init__ and load_benchmark_data

\* C19  Instance isolation: a call of load_benchmark_data on one instance
\* leaves the execution costs of every other instance as they were, and
\* leaves DEFAULT_EXEC_COSTS (what a later instance gets by default) as it was.
C19_InstanceIsolation ==
  [][loads' = loads + 1 =>
       /\ DEFAULT_EXEC_COSTS' = DEFAULT_EXEC_COSTS
       /\ \A j \in Inst, k \in Inst :
            (j # k /\ pc[j] # "none" /\ pc[k] # "none") =>
              (ExecCosts(j)' = ExecCosts(j) \/ ExecCosts(k)' = ExecCosts(k))]_vars

\* ---- schedule_task

NodeIndex(n) == CHOOSE k \in 1..Len(NodeOrder) : NodeOrder[k] = n

\* C20  EFT selection: every step of schedule_task gives the task a node
\* whose finish time, by get_earliest_finish_time in the state before the
\* step, is the least over the fleet, and the first such node in the order of
\* NODES; the task gets that node's start and finish times.
C20_EftSelection ==
  [][\A i \in Inst :
       (pc[i] = "schedule" /\ idx'[i] = idx[i] + 1) =>
         LET t      == sorted_tasks[i][idx[i]]
             n      == tasks'[i][t].scheduled_node
             eft(m) == get_earliest_finish_time(i, t, m)
         IN  /\ n \in NodeIds
             /\ \A m \in NodeIds : eft(n).end <= eft(m).end
             /\ \A m \in NodeIds : NodeIndex(m) < NodeIndex(n) => eft(n).end < eft(m).end
             /\ tasks'[i][t].start_time = eft(n).start
             /\ tasks'[i][t].end_time = eft(n).end]_vars

\* The first task of a first run went to worker-w001 while the last worker
\* of the fleet, as free as the first, offered the same finish time.
C20_Witness ==
  \E i \in Inst :
    /\ pc[i] = "schedule"
    /\ runs[i] = 1
    /\ idx[i] = 2
    /\ LET task == tasks[i][sorted_tasks[i][1]]
       IN  /\ task.scheduled_node = "worker-w001"
           /\ node_availability[i]["worker-w006"] = 0
           /\ task.end_time = get_exec_cost(ExecCosts(i), task.task_type, "worker-w006")

\* ---- heft_resilience_sim.py

\* C16  Fault injection respects exclusions: the node simulate_node_failure
\* targets is not in exclude_nodes, the zone simulate_rack_failure targets is
\* not in exclude_zones, and no node simulate_rack_failure targets is in
\* exclude_nodes.
C16_RespectsExclusions ==
  /\ sim.target_node # "None" => sim.target_node \notin sim.exclude_nodes
  /\ (sim.target_node = "None" /\ sim.target_zone # "None") =>
       /\ sim.target_zone \notin sim.exclude_zones
       /\ Range(sim.target_nodes) \cap sim.exclude_nodes = {}

\* ---- get_earliest_finish_time and schedule_task

\* The largest, over all predecessors p of task t, of end_time(p) plus the
\* communication cost from the node of p to node n; 0 without predecessors.
ReadyAfterAllPreds(i, t, n) ==
  LET terms == {tasks[i][p].end_time
                  + get_comm_cost(comm_costs[i], tasks[i][p].scheduled_node, n, 1) :
                p \in Range(tasks[i][t].predecessors)}
  IN  IF terms = {} THEN 0 ELSE CHOOSE c \in terms : \A d \in terms : d <= c

\* C21  Ready and finish time: in every step of schedule_task, for the task t
\* it assigns and every node n, every predecessor of t has a node and an end
\* time, get_earliest_finish_time gives start = max(node_availability[n],
\* largest over all predecessors p of end_time(p) + get_comm_cost(node of p,
\* n)) and end = start + get_exec_cost(type of t, n), and the entry recorded
\* for t is this start and end for the chosen node.
C21_ReadyFinishTime ==
  [][\A i \in Inst :
       (pc[i] = "schedule" /\ idx'[i] = idx[i] + 1) =>
         LET t        == sorted_tasks[i][idx[i]]
             start(n) == Max2(node_availability[i][n], ReadyAfterAllPreds(i, t, n))
             end(n)   == start(n) + get_exec_cost(ExecCosts(i), tasks[i][t].task_type, n)
             chosen   == schedule'[i][t][1]
         IN  /\ \A p \in Range(tasks[i][t].predecessors) :
                  tasks[i][p].scheduled_node # "None"
             /\ \A n \in NodeIds :
                  get_earliest_finish_time(i, t, n) = [start |-> start(n), end |-> end(n)]
             /\ schedule'[i][t] = << chosen, start(chosen), end(chosen) >>]_vars

\* ---- run_heft, steps 3 and 4

\* The position of task t in the declaration order of the instance's dag_def.
Declared(i, t) == CHOOSE k \in 1..Len(DagOrder(dag[i])) : DagOrder(dag[i])[k] = t

\* Task u comes before task t in the order of the claim: larger rank first,
\* and of two tasks of equal rank the one declared first.
RankedBefore(i, u, t) ==
  \/ tasks[i][u].upward_rank > tasks[i][t].upward_rank
  \/ /\ tasks[i][u].upward_rank = tasks[i][t].upward_rank
     /\ Declared(i, u) < Declared(i, t)

\* C22  Scheduling order: every step of schedule_task assigns one task, all
\* tasks of larger rank and all tasks of equal rank declared before it have
\* been assigned in this run, and no other task has.
C22_SchedulingOrder ==
  [][\A i \in Inst :
       (pc[i] = "schedule" /\ idx'[i] = idx[i] + 1) =>
         \E t \in DOMAIN tasks[i] :
           /\ tasks[i][t].scheduled_node = "None"
           /\ tasks'[i][t].scheduled_node # "None"
           /\ \A u \in DOMAIN tasks[i] \ {t} :
                /\ tasks'[i][u] = tasks[i][u]
                /\ (tasks[i][u].scheduled_node # "None") <=> RankedBefore(i, u, t)]_vars

\* The three health checks have one rank; the first two have a node and the
\* third has none yet.
C22_Witness ==
  \E i \in Inst :
    /\ pc[i] = "schedule"
    /\ dag[i] = "resilience"
    /\ tasks[i]["health-check-1"].upward_rank = tasks[i]["health-check-3"].upward_rank
    /\ tasks[i]["health-check-2"].upward_rank = tasks[i]["health-check-3"].upward_rank
    /\ tasks[i]["health-check-1"].scheduled_node # "None"
    /\ tasks[i]["health-check-2"].scheduled_node # "None"
    /\ tasks[i]["health-check-3"].scheduled_node = "None"

\* ---- compute_upward_rank

\* The sum of the communication cost over all ordered pairs of nodes.
SumCommAllPairs(costs) ==
  SumSeq([k \in 1..(Len(NodeOrder) * Len(NodeOrder)) |->
            get_comm_cost(costs, NodeOrder[((k - 1) \div Len(NodeOrder)) + 1],
                          NodeOrder[((k - 1) % Len(NodeOrder)) + 1], 1)])

MaxOf(S) == CHOOSE c \in S : \A d \in S : d <= c

\* C23  Rank of a task with successors: a stored rank is the task's average
\* execution cost plus the largest, over its successors s, of avgComm +
\* rank(s), avgComm being the communication cost averaged over all ordered
\* pairs of nodes (the equation is multiplied by the number of pairs).
C23_NonSinkRank ==
  \A i \in Inst : \A t \in DOMAIN memo[i] :
    LET succs == Range(tasks[i][t].successors)
        pairs == Len(NodeOrder) * Len(NodeOrder)
    IN  (succs # {} /\ succs \subseteq DOMAIN memo[i]) =>
          memo[i][t] * pairs
            = Len(NodeOrder) * SumExec(run_inputs[i].exec, tasks[i][t].task_type)
              + SumCommAllPairs(comm_costs[i])
              + pairs * MaxOf({memo[i][s] : s \in succs})

\* ---- run_heft, the phases of a task

\* The phase of task t in the current run: 0 Unranked (no rank stored), 1
\* Ranked (in memo, no node), 2 Scheduled (it has a node).
Phase(i, t) ==
  IF tasks[i][t].scheduled_node # "None" THEN 2
  ELSE IF t \in DOMAIN memo[i] THEN 1
  ELSE 0

\* C24  Phase ordering: in every step inside a run (any step but the start
\* of run_heft) a task keeps its phase or moves one phase on, Unranked to
\* Ranked to Scheduled; a task is given a node only when every task has a
\* rank; once a task has a node no rank changes; a task that has a node is
\* not assigned again; and when run_heft returns every task has a node.
C24_PhaseOrdering ==
  [][\A i \in Inst :
       runs'[i] = runs[i] =>
         \A t \in DOMAIN tasks[i] :
           /\ Phase(i, t)' >= Phase(i, t)
           /\ Phase(i, t)' <= Phase(i, t) + 1
           /\ Phase(i, t)' = 2 => \A u \in DOMAIN tasks[i] : Phase(i, u)' >= 1
           /\ (\E u \in DOMAIN tasks[i] : Phase(i, u) = 2) =>
                tasks'[i][t].upward_rank = tasks[i][t].upward_rank
           /\ Phase(i, t) = 2 => tasks'[i][t] = tasks[i][t]
           /\ pc'[i] = "done" => Phase(i, t)' = 2]_vars

\* In the second run of an instance the first tasks have a node again and
\* the others, all ranked, wait for theirs.
C24_Witness ==
  \E i \in Inst :
    /\ pc[i] = "schedule"
    /\ runs[i] = 2
    /\ \E t \in DOMAIN tasks[i], u \in DOMAIN tasks[i] :
         Phase(i, t) = 2 /\ Phase(i, u) = 1
    /\ \A t \in DOMAIN tasks[i] : Phase(i, t) >= 1

\* ---- schedule_task, what a step changes

\* C25  Frame of an assignment: a step of schedule_task for task t adds the
\* entry of t to the schedule, which had none for t, and keeps every entry
\* the schedule had; it sets node_availability of the chosen node to the
\* finish time of t; the fields of every other task, the availability of
\* every other node, the ranks and the cost tables are as before.
C25_AssignmentFrame ==
  [][\A i \in Inst :
       (pc[i] = "schedule" /\ idx'[i] = idx[i] + 1) =>
         LET t == sorted_tasks[i][idx[i]]
             n == tasks'[i][t].scheduled_node
         IN  /\ t \notin DOMAIN schedule[i]
             /\ DOMAIN schedule'[i] = DOMAIN schedule[i] \cup {t}
             /\ schedule'[i][t] = << n, tasks'[i][t].start_time, tasks'[i][t].end_time >>
             /\ \A u \in DOMAIN schedule[i] : schedule'[i][u] = schedule[i][u]
             /\ node_availability'[i][n] = tasks'[i][t].end_time
             /\ \A m \in NodeIds \ {n} : node_availability'[i][m] = node_availability[i][m]
             /\ \A u \in DOMAIN tasks[i] \ {t} : tasks'[i][u] = tasks[i][u]
             /\ \A u \in DOMAIN tasks[i] : tasks'[i][u].upward_rank = tasks[i][u].upward_rank
             /\ memo' = memo
             /\ DEFAULT_EXEC_COSTS' = DEFAULT_EXEC_COSTS
             /\ exec_costs' = exec_costs
             /\ comm_costs' = comm_costs]_vars

\* ---- run_heft, termination

InRun(i) == pc[i] \in {"ranking", "schedule"}

\* Every cost a task of the instance needs is a number.
AllNumeric(i) == \A t \in DOMAIN tasks[i] : ~AvgExecRaises(i, t)

\* AllScheduled: run_heft has returned, every task has a rank, a node and
\* one entry of the schedule, and the schedule has no other entry.
AllScheduled(i) ==
  /\ pc[i] = "done"
  /\ DOMAIN schedule[i] = DagIds(dag[i])
  /\ DOMAIN memo[i] = DagIds(dag[i])
  /\ \A t \in DOMAIN tasks[i] :
       /\ tasks[i][t].scheduled_node # "None"
       /\ schedule[i][t] = << tasks[i][t].scheduled_node, tasks[i][t].start_time,
                              tasks[i][t].end_time >>

\* The body of compute_upward_rank runs at most once for a task: a frame is
\* opened only for a task that has no stored rank and no open frame, and a
\* stored rank stays as it is for the rest of the run.
RankBodyOnce(i) ==
  /\ Len(stack'[i]) = Len(stack[i]) + 1 =>
       LET t == stack'[i][Len(stack'[i])].task
       IN  /\ t \notin DOMAIN memo[i]
           /\ \A k \in 1..Len(stack[i]) : stack[i][k].task # t
  /\ runs'[i] = runs[i] =>
       \A t \in DOMAIN memo[i] : t \in DOMAIN memo'[i] /\ memo'[i][t] = memo[i][t]

TasksOn(i, n) == {t \in DOMAIN tasks[i] : tasks[i][t].scheduled_node = n}

\* C27  No overlap on a node: in every state of a run, from the start of
\* run_heft to its return, two distinct tasks assigned to one node have
\* disjoint execution intervals, and node_availability[n] is the largest end
\* time of the tasks assigned to n, 0 when n has none.
C27_NoOverlap ==
  \A i \in Inst : pc[i] \in {"ranking", "schedule", "done"} =>
    \A n \in NodeIds :
      /\ \A t \in TasksOn(i, n), u \in TasksOn(i, n) :
           t # u => \/ tasks[i][t].end_time <= tasks[i][u].start_time
                    \/ tasks[i][u].end_time <= tasks[i][t].start_time
      /\ node_availability[i][n] =
           IF TasksOn(i, n) = {} THEN 0
           ELSE MaxOf({tasks[i][t].end_time : t \in TasksOn(i, n)})

\* ---- the order of assignment against the edges of the graph

\* C28  Rank order is a topological order: once every rank is computed, each
\* edge u -> v has upward_rank(u) > upward_rank(v), and whenever schedule_task
\* is about to assign a task, every predecessor of that task already has a
\* node (and with it an end time).
C28_RankTopological ==
  \A i \in Inst : pc[i] = "schedule" =>
    /\ \A e \in Edges(i) :
         tasks[i][e[1]].upward_rank > tasks[i][e[2]].upward_rank
    /\ idx[i] <= Len(sorted_tasks[i]) =>
         \A p \in Range(tasks[i][sorted_tasks[i][idx[i]]].predecessors) :
           tasks[i][p].scheduled_node # "None"

\* ---- get_exclusion_info for an id the schedule does not hold

\* The ids a caller may ask about: the tasks of every graph and an id no graph
\* defines.
QueryIds == UNION {DagIds(g) : g \in Dags} \cup {"no-such-task"}

C30_InjectionUndone ==
  /\ sim.state = "ready" => (sim.unschedulable = {} /\ sim.tainted = {})
  /\ (sim.state = "rack_cordon" /\ sim.pos = 1) =>
       \A k \in 1..Len(sim.results) :
         sim.results[k].kind = "node" =>
           sim.results[k].target_node \notin sim.unschedulable

====
